---- MODULE Spec2Model ----
(***************************************************************************)
(* London Liveability Pulse collector: collectOnce (collect.ts), the       *)
(* source adapters (sources.ts), the normalizers (normalize.ts) and the    *)
(* scoring functions (scoring.ts).                                         *)
(*                                                                         *)
(* Numbers are fixed point.  Penalties, scores and minutes are in          *)
(* hundredths ("centi"), weights in tenths, times in milliseconds counted  *)
(* from the first run.  NoNum stands for null / undefined / NaN.           *)
(***************************************************************************)
EXTENDS Integers, Sequences, FiniteSets, TLC

VARIABLES
    cfg,            \* the configuration file's content and the environment
    pc,             \* position of collectOnce: idle, tfl, openMeteo, ergAirQuality, compute, done, aborted
    now,            \* options.now of the current run (ms)
    runs,           \* number of runs started
    backdated,      \* some run started with a `now` earlier than the run before it
    sourceStatuses, \* collectOnce: sourceStatuses
    warnings,       \* collectOnce: warnings
    requestTraces,  \* collectOnce: requestTraces, appended to by recordTrace
    req,            \* the upstream requests of the run and what became of them
    data,           \* tflStatusLines, tflArrivals, weatherRaw, airSummary
    latestFile,     \* latest.json
    historyFile,    \* history.json
    metaFile,       \* meta.json
    input,          \* argument of the function under study (function specifications)
    output          \* its result

vars == <<cfg, pc, now, runs, backdated, sourceStatuses, warnings, requestTraces,
          req, data, latestFile, historyFile, metaFile, input, output>>

runVars == <<cfg, pc, now, runs, backdated, sourceStatuses, warnings,
             req, data, latestFile, historyFile, metaFile>>

(***************************************************************************)
(* Bounds                                                                  *)
(***************************************************************************)
\* query parameters of a URL handed to the sanitizer
MaxQueryLen == 2
\* configured stop points
MaxStops == 2
\* configured transit modes
MaxModes == 2
\* historyRetentionDays explored
MaxDays == 2
\* runs in a sequence of runs
MaxRuns == 3
\* points beyond the length cap in a prior series
MaxOverCap == 2
\* lines or stops handed to an aggregator
MaxItems == 3
\* rows of a band table handed to lookupBandPenalty
MaxBands == 3

NoNum == 0 - 1000000
NoText == "<none>"

(***************************************************************************)
(* Sequences                                                               *)
(***************************************************************************)
\* Recursion over a sequence is written as a function of the sequence, so
\* that the argument is a value at every level.
SumFn[s \in Seq(Int)] == IF s = <<>> THEN 0 ELSE Head(s) + SumFn[Tail(s)]

SumSeq(s) == SumFn[s]

\* Math.max(...s) of a sequence that is not empty
MaxFn[s \in Seq(Int)] ==
    CHOOSE x \in {s[i] : i \in 1..Len(s)} : \A j \in 1..Len(s) : x >= s[j]

MaxSeq(s) == MaxFn[s]

\* Array.prototype.flat() of the first n arrays of ss
RECURSIVE FlatUpTo(_, _)
FlatUpTo(ss, n) == IF n = 0 THEN <<>> ELSE FlatUpTo(ss, n - 1) \o ss[n]

Flat(ss) == FlatUpTo(ss, Len(ss))

Take(s, n) == IF n <= 0 THEN <<>> ELSE SubSeq(s, 1, IF n < Len(s) THEN n ELSE Len(s))

(***************************************************************************)
(* URLs.  A URL is its path and its query, a sequence of name/value pairs  *)
(* (URLSearchParams).  The text of a URL is made of these tokens.          *)
(***************************************************************************)
Param(n, v) == [name |-> n, value |-> v]

SearchParamsHas(q, k) == \E i \in 1..Len(q) : q[i].name = k

\* URLSearchParams.set: the first pair named k gets the value, the other
\* pairs named k are removed; a pair is appended when there is none.
RECURSIVE SetFrom(_, _, _, _)
SetFrom(q, k, v, seen) ==
    IF q = <<>> THEN <<>>
    ELSE IF Head(q).name # k THEN <<Head(q)>> \o SetFrom(Tail(q), k, v, seen)
    ELSE IF seen THEN SetFrom(Tail(q), k, v, TRUE)
    ELSE <<Param(k, v)>> \o SetFrom(Tail(q), k, v, TRUE)

SearchParamsSet(q, k, v) ==
    IF SearchParamsHas(q, k) THEN SetFrom(q, k, v, FALSE)
    ELSE Append(q, Param(k, v))

SensitiveKeys == <<"app_key", "api_key", "key", "token">>

IsSensitive(n) == \E i \in 1..Len(SensitiveKeys) : SensitiveKeys[i] = n

RECURSIVE RedactKeys(_, _)
RedactKeys(q, keys) ==
    IF keys = <<>> THEN q
    ELSE RedactKeys(IF SearchParamsHas(q, Head(keys))
                    THEN SearchParamsSet(q, Head(keys), "REDACTED")
                    ELSE q,
                    Tail(keys))

\* the variant that forgets the last key of the list
SanitizeSkippingToken(url) ==
    [url EXCEPT !.query = RedactKeys(url.query, SubSeq(SensitiveKeys, 1, 3))]

sanitizeUrlForLineage(url) ==
    [url EXCEPT !.query = RedactKeys(url.query, SensitiveKeys)]

\* sources.ts trace(): the record handed to recordTrace
trace(url, source, note) ==
    [source |-> source, method |-> "GET", url |-> sanitizeUrlForLineage(url), note |-> note]

\* a token occurs in the text of a URL
OccursInQuery(t, q) == \E i \in 1..Len(q) : q[i].name = t \/ q[i].value = t
OccursInUrl(t, url) == url.path.kind = t \/ OccursInQuery(t, url.query)

Path(kind, ids) == [kind |-> kind, ids |-> ids]

(***************************************************************************)
(* Numbers                                                                 *)
(***************************************************************************)
Min(a, b) == IF a <= b THEN a ELSE b
Max(a, b) == IF a >= b THEN a ELSE b

\* Math.round of n/d (d > 0): the nearest integer, halves upwards
RoundDiv(n, d) == (2 * n + d) \div (2 * d)

\* JSON values met where a number is expected
NullRaw == NoNum - 1      \* JSON null
TextRaw == NoNum - 2      \* a string that is not a number

\* Number(x)
ToNumber(x) == IF x = NullRaw THEN 0 ELSE IF x = TextRaw THEN NoNum ELSE x

IsFinite(x) == x # NoNum

Insert[x \in Int, s \in Seq(Int)] ==
    IF s = <<>> THEN <<x>>
    ELSE IF x < Head(s) THEN <<x>> \o s
    ELSE <<Head(s)>> \o Insert[x, Tail(s)]

SortFn[s \in Seq(Int)] ==
    IF s = <<>> THEN <<>> ELSE Insert[s[Len(s)], SortFn[SubSeq(s, 1, Len(s) - 1)]]

\* Array.prototype.sort((a, b) => a - b)
SortAsc(s) == SortFn[s]

MapSeq(F(_), s) == [i \in 1..Len(s) |-> F(s[i])]

(***************************************************************************)
(* The scoring configuration (the valid configuration of the tests)        *)
(***************************************************************************)
WeightTransit == 10
WeightWait == 10
WeightWeather == 8
WeightAir == 10
Weights == [transit |-> WeightTransit, wait |-> WeightWait,
            weather |-> WeightWeather, air |-> WeightAir]

FallbackTransit == 1500
FallbackWait == 1500
FallbackWeather == 1000
FallbackAir == 1000
\* scoring.fallbacks of the valid configuration of the tests
TestFallbacks == [transitPenalty |-> FallbackTransit, waitPenalty |-> FallbackWait,
                  weatherPenalty |-> FallbackWeather, airPenalty |-> FallbackAir]

\* fallbacks above every penalty of the band tables: the schema and
\* validateConfigObject do not compare the two
SteepFallbacks == [transitPenalty |-> 6000, waitPenalty |-> 4000,
                   weatherPenalty |-> 3500, airPenalty |-> 4000]

\* config.scoring.fallbacks
Fallbacks == cfg.fallbacks

Band(limit, penalty) == [limit |-> limit, penalty |-> penalty]

transitSeverityPoints ==
    [goodService |-> 0, minorDelays |-> 1000, severeDelays |-> 2500,
     partSuspended |-> 3500, suspended |-> 5000, unknown |-> 1500]

waitPenaltyBands == <<Band(300, 0), Band(700, 1000), Band(1200, 2000), Band(99900, 3500)>>
rainBands == <<Band(20, 0), Band(50, 1000), Band(80, 2000), Band(100, 3000)>>
windBands == <<Band(20, 0), Band(35, 500), Band(999, 1000)>>
tempComfort == [idealMin |-> 16, idealMax |-> 22, shoulderMin |-> 10, shoulderMax |-> 27,
                shoulderPenalty |-> 800, extremePenalty |-> 1600]
airPenalty == <<[limit |-> 3, penalty |-> 0, band |-> "Low"],
                [limit |-> 6, penalty |-> 1000, band |-> "Moderate"],
                [limit |-> 9, penalty |-> 2500, band |-> "High"],
                [limit |-> 10, penalty |-> 3500, band |-> "Very High"]>>
forecastHours == 48

(***************************************************************************)
(* normalize.ts                                                            *)
(***************************************************************************)
\* the first index of bands whose limit is >= value, 0 when there is none
\* the rows of a penalty band table
BandRows == [limit : Int, penalty : Int]

\* bands.find(...): value <= limit is false of every limit when value is NaN
FindBand[value \in Int, bands \in Seq(BandRows), i \in Nat] ==
    IF i > Len(bands) THEN 0
    ELSE IF value # NoNum /\ value <= bands[i].limit THEN i
    ELSE FindBand[value, bands, i + 1]

\* the variant that compares with < instead of <=
LookupBelowLimit(value, bands) ==
    LET below == { i \in 1..Len(bands) : value # NoNum /\ value < bands[i].limit }
    IN  IF below # {} THEN bands[CHOOSE i \in below : \A j \in below : i <= j].penalty
        ELSE IF bands # <<>> THEN bands[Len(bands)].penalty
        ELSE 0

lookupBandPenalty(value, bands) ==
    LET i == FindBand[value, bands, 1]
    IN  IF i # 0 THEN bands[i].penalty
        ELSE IF bands # <<>> THEN bands[Len(bands)].penalty
        ELSE 0

\* the variant that keeps average()'s own answer for an empty list
AverageZeroWhenEmpty(values, fallback) ==
    IF values = <<>> THEN 0 ELSE RoundDiv(SumSeq(values), Len(values))

\* average() and the rounding to two decimals, in one division
averagePenalty(values, fallback) ==
    IF values = <<>> THEN fallback ELSE RoundDiv(SumSeq(values), Len(values))

MedianFn[values \in Seq(Int)] ==
    IF values = <<>> THEN NoNum
    ELSE LET sorted == SortAsc(values)
             mid == Len(sorted) \div 2
         IN  IF Len(sorted) % 2 = 1 THEN sorted[mid + 1]
             ELSE (sorted[mid] + sorted[mid + 1]) \div 2

\* the variant that takes the lower of the two middle values
MedianLower(values) ==
    IF values = <<>> THEN NoNum ELSE SortAsc(values)[(Len(values) + 1) \div 2]

median(values) == MedianFn[values]

\* status.trim().toLowerCase() of the status texts met here
LowerTrim(status) ==
    CASE status = "Good Service" -> "good service"
      [] status = "Minor Delays" -> "minor delays"
      [] status = " severe delays " -> "severe delays"
      [] status = "Severe Delays" -> "severe delays"
      [] status = "Part Suspended" -> "part suspended"
      [] status = "Suspended" -> "suspended"
      [] OTHER -> status

mapTransitStatusToSeverity(status, points) ==
    LET normalized == LowerTrim(status)
    IN  CASE normalized = "good service" -> points.goodService
          [] normalized = "minor delays" -> points.minorDelays
          [] normalized = "severe delays" -> points.severeDelays
          [] normalized = "part suspended" -> points.partSuspended
          [] normalized = "suspended" -> points.suspended
          [] OTHER -> points.unknown

\* raw: a sequence of line items [name, status]; the watch list is empty
\* in every configuration explored, so every returned line is kept.
normalizeTflLineStatuses(raw) ==
    [i \in 1..Len(raw) |->
        [name |-> raw[i].name, status |-> raw[i].status,
         severityPoints |-> mapTransitStatusToSeverity(raw[i].status, transitSeverityPoints)]]

SecondsToMinutes(seconds) == RoundDiv(seconds * 10, 60) * 10

\* raw: the timeToStation values of the arrivals payload
normalizeTflArrivals(raw, stop) ==
    LET numbers == MapSeq(ToNumber, raw)
        usable == SelectSeq(numbers, LAMBDA v : IsFinite(v) /\ v >= 0)
        minutes == MapSeq(SecondsToMinutes, Take(SortAsc(usable), 3))
        medianMinutes == median(minutes)
    IN  [stopPointId |-> stop,
         nextArrivalsMinutes |-> minutes,
         medianMinutes |-> medianMinutes,
         penalty |-> IF medianMinutes = NoNum THEN Fallbacks.waitPenalty
                     ELSE lookupBandPenalty(medianMinutes, waitPenaltyBands)]

EmptyWeather == [time |-> <<>>, temperature_2m |-> <<>>,
                 precipitation_probability |-> <<>>, wind_speed_10m |-> <<>>]

NumbersOf(arr, hours) == SelectSeq(MapSeq(ToNumber, Take(arr, hours)), IsFinite)

\* raw: the hourly object of the payload (EmptyWeather when it is missing)
normalizeOpenMeteoHourly(raw, hours) ==
    [time |-> Take(raw.time, hours),
     temperature_2m |-> NumbersOf(raw.temperature_2m, hours),
     precipitation_probability |-> NumbersOf(raw.precipitation_probability, hours),
     wind_speed_10m |-> NumbersOf(raw.wind_speed_10m, hours)]

\* The ERG payload is a tree of objects.  A node holds its site name (NoText
\* when it has none), the values of its @AQI, AQI, AQIIndex and
\* AirQualityIndex fields in tenths (NoNum when absent) and its children.
Node(site, aqi, children) == [siteName |-> site, aqi |-> aqi, children |-> children]
NoPayload == Node(NoText, <<>>, <<>>)

IsAqi(raw) == LET value == ToNumber(raw)
              IN  value # NoNum /\ value % 10 = 0 /\ value >= 10 /\ value <= 100

RECURSIVE visit(_, _)
RECURSIVE visitFrom(_, _, _)
visit(node, currentStation) ==
    LET nextStation == IF node.siteName # NoText THEN node.siteName ELSE currentStation
        here == [i \in 1..Len(SelectSeq(node.aqi, IsAqi)) |->
                    [value |-> ToNumber(SelectSeq(node.aqi, IsAqi)[i]) \div 10,
                     stationName |-> nextStation]]
    IN  here \o visitFrom(node.children, 1, nextStation)
\* Object.values(node).forEach((value) => visit(value, nextStation)), from child i on
visitFrom(nodes, i, station) ==
    IF i > Len(nodes) THEN <<>>
    ELSE visit(nodes[i], station) \o visitFrom(nodes, i + 1, station)

\* the variant that takes the first index found
FirstFound(found) == found[1]

\* found.sort((a, b) => b.value - a.value)[0]: the first found of the largest value
FirstMax(found) ==
    found[CHOOSE i \in 1..Len(found) :
              /\ \A j \in 1..Len(found) : found[j].value <= found[i].value
              /\ \A j \in 1..(i - 1) : found[j].value < found[i].value]

RECURSIVE FindAirBand(_, _)
FindAirBand(value, i) ==
    IF i > Len(airPenalty) THEN Len(airPenalty)
    ELSE IF value <= airPenalty[i].limit THEN i
    ELSE FindAirBand(value, i + 1)

summarizeErgAirQuality(raw) ==
    LET found == visit(raw, NoText)
    IN  IF found = <<>>
        THEN [maxIndex |-> NoNum, band |-> NoText,
              penalty |-> Fallbacks.airPenalty, stationName |-> NoText]
        ELSE LET max == FirstMax(found)
                 bandRow == airPenalty[FindAirBand(max.value, 1)]
             IN  [maxIndex |-> max.value, band |-> bandRow.band,
                  penalty |-> bandRow.penalty, stationName |-> max.stationName]

(***************************************************************************)
(* scoring.ts                                                              *)
(***************************************************************************)
computeTransitPenalty(lines) ==
    averagePenalty(MapSeq(LAMBDA l : l.severityPoints, lines), Fallbacks.transitPenalty)

computeWaitPenalty(arrivals) ==
    averagePenalty(MapSeq(LAMBDA a : a.penalty, arrivals), Fallbacks.waitPenalty)

\* the variant that keeps every value of the array
SliceAll(values) == SelectSeq(values, IsFinite)

sliceNext6(values) == SelectSeq(Take(values, 6), IsFinite)

\* the variant that adds the shoulder penalty to the extreme one
TempPenaltyStacked(representativeTemp) ==
    IF representativeTemp = NoNum THEN Fallbacks.weatherPenalty
    ELSE IF representativeTemp >= tempComfort.idealMin /\ representativeTemp <= tempComfort.idealMax
         THEN 0
    ELSE IF representativeTemp >= tempComfort.shoulderMin /\ representativeTemp <= tempComfort.shoulderMax
         THEN tempComfort.shoulderPenalty
    ELSE tempComfort.shoulderPenalty + tempComfort.extremePenalty

TempPenalty(representativeTemp) ==
    IF representativeTemp = NoNum THEN Fallbacks.weatherPenalty
    ELSE IF representativeTemp >= tempComfort.idealMin /\ representativeTemp <= tempComfort.idealMax
         THEN 0
    ELSE IF representativeTemp >= tempComfort.shoulderMin /\ representativeTemp <= tempComfort.shoulderMax
         THEN tempComfort.shoulderPenalty
    ELSE tempComfort.extremePenalty

WeatherSummary(next6h, maxRain, temp, maxWind, rainP, tempP, windP, penalty) ==
    [next6h |-> next6h, maxRainProbability |-> maxRain, representativeTemp |-> temp,
     maxWindSpeed |-> maxWind, rainPenalty |-> rainP, tempPenalty |-> tempP,
     windPenalty |-> windP, penalty |-> penalty]

computeWeatherPenalty(weather) ==
    LET rain == sliceNext6(weather.precipitation_probability)
        temps == sliceNext6(weather.temperature_2m)
        wind == sliceNext6(weather.wind_speed_10m)
        maxRainProbability == IF rain # <<>> THEN MaxSeq(rain) ELSE NoNum
        representativeTemp == IF temps # <<>> THEN temps[1] ELSE NoNum
        maxWindSpeed == IF wind # <<>> THEN MaxSeq(wind) ELSE NoNum
        rainPenalty == IF maxRainProbability = NoNum THEN Fallbacks.weatherPenalty
                       ELSE lookupBandPenalty(maxRainProbability, rainBands)
        tempPenalty == TempPenalty(representativeTemp)
        windPenalty == IF maxWindSpeed = NoNum THEN Fallbacks.weatherPenalty
                       ELSE lookupBandPenalty(maxWindSpeed, windBands)
    IN  WeatherSummary([time |-> Take(weather.time, 6), temperature_2m |-> temps,
                        precipitation_probability |-> rain, wind_speed_10m |-> wind],
                       maxRainProbability, representativeTemp, maxWindSpeed,
                       rainPenalty, tempPenalty, windPenalty,
                       rainPenalty + tempPenalty + windPenalty)

computeAirPenalty(air) ==
    IF air.maxIndex = NoNum THEN [air EXCEPT !.penalty = Fallbacks.airPenalty] ELSE air

\* Math.round(x * 100) / 100 of a value given in thousandths, in hundredths
Round2(milli) == RoundDiv(milli, 10)

WeightedTotalMilli(penalties, weights) ==
    weights.transit * penalties.transit + weights.wait * penalties.wait
    + weights.weather * penalties.weather + weights.air * penalties.air

\* the variant without the clamp
ScoreUnclamped(penalties, weights) ==
    LET weightedTotal == WeightedTotalMilli(penalties, weights)
    IN  [score |-> Round2(100000 - weightedTotal), weightedTotal |-> Round2(weightedTotal)]

\* the variant that takes the score from the rounded total
ScoreFromRoundedTotal(penalties, weights) ==
    LET weightedTotal == Round2(WeightedTotalMilli(penalties, weights))
    IN  [score |-> Max(0, Min(10000, 10000 - weightedTotal)), weightedTotal |-> weightedTotal]

computeLiveabilityScore(penalties, weights) ==
    LET weightedTotal == WeightedTotalMilli(penalties, weights)
    IN  [score |-> Max(0, Min(10000, Round2(100000 - weightedTotal))),
         weightedTotal |-> Round2(weightedTotal)]

(***************************************************************************)
(* config.ts                                                               *)
(***************************************************************************)
Sources == {"tfl", "openMeteo", "ergAirQuality", "fhrs"}

Enabled(t, o, e, f) == [tfl |-> t, openMeteo |-> o, ergAirQuality |-> e, fhrs |-> f]

Config(schemaOk, enabled, weights, days, interval, hasKey, nModes, nStops) ==
    [schemaOk |-> schemaOk, enabled |-> enabled, weights |-> weights,
     historyRetentionDays |-> days, collectionIntervalMinutes |-> interval,
     hasKey |-> hasKey, nModes |-> nModes, nStops |-> nStops, fallbacks |-> TestFallbacks]

WeightValues(w) == {w.transit, w.wait, w.weather, w.air}

\* the variant without the upper limit on historyRetentionDays
ValidateWithoutCeiling(c) ==
    /\ c.schemaOk
    /\ \E s \in Sources : c.enabled[s]
    /\ \A v \in WeightValues(c.weights) : v >= 0
    /\ \E v \in WeightValues(c.weights) : v > 0
    /\ c.historyRetentionDays >= 1
    /\ c.collectionIntervalMinutes >= 5

\* validateConfigObject: TRUE when it returns, FALSE when it throws
validateConfigObject(c) ==
    /\ c.schemaOk
    /\ \E s \in Sources : c.enabled[s]
    /\ \A v \in WeightValues(c.weights) : v >= 0
    /\ \E v \in WeightValues(c.weights) : v > 0
    /\ c.historyRetentionDays >= 1 /\ c.historyRetentionDays <= 30
    /\ c.collectionIntervalMinutes >= 5

\* the variant that accepts whatever it is given
AcceptAnyConfig(c) == TRUE

loadValidatedConfig(c) == validateConfigObject(c)

DefaultInterval == 15

\* configurations with the transit source enabled
TflConfigs ==
    { Config(TRUE, Enabled(TRUE, o, e, FALSE), Weights, 1, DefaultInterval, k, m, n) :
        o \in BOOLEAN, e \in BOOLEAN, k \in BOOLEAN, m \in 1..MaxModes, n \in 0..MaxStops }

\* configurations without it
QuietConfigs ==
    { Config(TRUE, Enabled(FALSE, o, e, f), Weights, d, DefaultInterval, TRUE, 1, 0) :
        o \in BOOLEAN, e \in BOOLEAN, f \in BOOLEAN, d \in 1..MaxDays }

\* configurations validateConfigObject rejects, one for each of its checks
RejectedConfigs ==
    LET ok == Config(TRUE, Enabled(TRUE, TRUE, TRUE, FALSE), Weights, 1, DefaultInterval, TRUE, 1, 1)
    IN  { [ok EXCEPT !.schemaOk = FALSE],
          [ok EXCEPT !.enabled = Enabled(FALSE, FALSE, FALSE, FALSE)],
          [ok EXCEPT !.weights.air = 0 - 10],
          [ok EXCEPT !.weights = [transit |-> 0, wait |-> 0, weather |-> 0, air |-> 0]],
          [ok EXCEPT !.historyRetentionDays = 0],
          [ok EXCEPT !.historyRetentionDays = 31],
          [ok EXCEPT !.collectionIntervalMinutes = 4] }

\* valid configurations whose fallbacks exceed the band tables
SteepConfigs ==
    { [Config(TRUE, Enabled(t, TRUE, TRUE, FALSE), Weights, 1, DefaultInterval, TRUE, 1, 1)
          EXCEPT !.fallbacks = SteepFallbacks] : t \in BOOLEAN }

\* the configurations of a sequence of runs: only the weather source is on
WeatherOnlyConfigs ==
    { Config(TRUE, Enabled(FALSE, TRUE, FALSE, FALSE), Weights, d, DefaultInterval, TRUE, 1, 0) :
        d \in 1..MaxDays }

(***************************************************************************)
(* sources.ts                                                              *)
(***************************************************************************)
AppKeyValue == "test-app-key"

Url(path, query) == [path |-> path, query |-> query]
NoUrl == Url(Path("", <<>>), <<>>)

withTflAuth(url, c) ==
    IF c.hasKey THEN [url EXCEPT !.query = SearchParamsSet(url.query, "app_key", AppKeyValue)]
    ELSE url

ModesOf(c) == [m \in 1..c.nModes |-> m]

LineStatusUrl(c) == withTflAuth(Url(Path("/line/mode/", ModesOf(c)), <<>>), c)
ModeStatusUrl(c, m) == withTflAuth(Url(Path("/line/mode/", <<m>>), <<>>), c)
ArrivalsUrl(c, s) == withTflAuth(Url(Path("/StopPoint/", <<s>>), <<>>), c)
ForecastUrl ==
    Url(Path("/v1/forecast", <<>>),
        <<Param("latitude", "51.5074"), Param("longitude", "-0.1278"),
          Param("hourly", "temperature_2m,precipitation_probability,wind_speed_10m"),
          Param("forecast_hours", "48"), Param("timezone", "Europe/London")>>)
MonitoringIndexUrl == Url(Path("/AirQuality/Hourly/MonitoringIndex/", <<>>), <<>>)

\* what a request comes to: a payload, or a failure.  status 0 is a failure
\* without an HTTP status (fetch failed, timeout, unparseable body).
Ok(payload) == [ok |-> TRUE, status |-> 200, payload |-> payload]
Failed(status, nothing) == [ok |-> FALSE, status |-> status, payload |-> nothing]

\* the Error thrown by fetchJson: `HTTP ${status} for ${url}` when the
\* response has a status, a message without the URL otherwise
Err(status, url) == [status |-> status, url |-> IF status = 0 THEN NoUrl ELSE url]
NoError == [status |-> 0 - 1, url |-> NoUrl]

\* the variant that takes every client error
IncludesHttp4xx(err) == err.status \in 400..499

\* message.includes('HTTP 400')
IncludesHttp400(err) == err.status = 400

LineItem(name, status) == [name |-> name, status |-> status]
LinePayloads == { <<>>, <<LineItem("Victoria", "Good Service"), LineItem("Circle", "Severe Delays")>> }
ModePayloads == { <<>>, <<LineItem("DLR", "Minor Delays")>> }
ArrivalPayloads == { <<>>, <<120, 360, 600, 1800>> }
WeatherScenario ==
    [time |-> <<"t1", "t2", "t3", "t4", "t5", "t6", "t7">>,
     temperature_2m |-> <<8, 9, 10, 11, 12, 13, 14>>,
     precipitation_probability |-> <<10, 40, 55, 80, 90, 30, 95>>,
     wind_speed_10m |-> <<15, 19, 22, 28, 36, 18, 40>>]
WeatherPayloads ==
    { WeatherScenario, EmptyWeather, [WeatherScenario EXCEPT !.temperature_2m = <<NullRaw, TextRaw>>,
                                                              !.wind_speed_10m = <<>>],
      [EmptyWeather EXCEPT !.time = WeatherScenario.time] }
AirScenario ==
    Node(NoText, <<>>, <<Node("Camden", <<40>>, <<>>), Node("City", <<20, 45>>, <<>>),
                         Node(NoText, <<110, NullRaw>>, <<>>)>>)
AirPayloads == { AirScenario, NoPayload }

LineOutcomes == { Ok(p) : p \in LinePayloads } \cup { Failed(s, <<>>) : s \in {0, 400, 404, 500} }
ModeOutcomes == { Ok(p) : p \in ModePayloads } \cup { Failed(500, <<>>) }
StopOutcomes == { Ok(p) : p \in ArrivalPayloads } \cup { Failed(s, <<>>) : s \in {0, 500} }
WeatherOutcomes == { Ok(p) : p \in WeatherPayloads } \cup { Failed(s, EmptyWeather) : s \in {0, 500} }
AirOutcomes == { Ok(p) : p \in AirPayloads } \cup { Failed(s, NoPayload) : s \in {0, 500} }

(***************************************************************************)
(* collect.ts                                                              *)
(***************************************************************************)
MsPerDay == 24 * 60 * 60 * 1000
PointsPerDay == 24 * 12

\* Date.toISOString and new Date(text).getTime(): the text carries the
\* milliseconds, so reading it back gives the same time value
ToISOString(ms) == [iso |-> ms]
GetTime(text) == text.iso

\* Array.prototype.slice(-n)
SliceLast(s, n) == IF n <= 0 \/ n >= Len(s) THEN s ELSE SubSeq(s, Len(s) - n + 1, Len(s))

\* the variant without the length cap
TrimWithoutCap(points, retentionDays, t) ==
    LET cutoff == t - retentionDays * MsPerDay
    IN  SelectSeq(points, LAMBDA point : GetTime(point.tsUtc) >= cutoff)

\* the variant that puts the newest point first
TrimNewestFirst(points, retentionDays, t) ==
    LET kept == TrimWithoutCap(points, retentionDays, t)
    IN  IF kept = <<>> THEN kept ELSE <<kept[Len(kept)]>> \o SubSeq(kept, 1, Len(kept) - 1)

\* the variant whose cap is one point short
TrimOneShort(points, retentionDays, t) ==
    LET cutoff == t - retentionDays * MsPerDay
    IN  SliceLast(SelectSeq(points, LAMBDA point : GetTime(point.tsUtc) >= cutoff),
                  retentionDays * PointsPerDay - 1)

trimHistory(points, retentionDays, t) ==
    LET cutoff == t - retentionDays * MsPerDay
    IN  SliceLast(SelectSeq(points, LAMBDA point : GetTime(point.tsUtc) >= cutoff),
                  retentionDays * PointsPerDay)

\* history.json: text is "json" when the file parses, "garbage" when it does not,
\* "locked" when it cannot be read; points is what the last writer put there
NoHistory == [exists |-> FALSE, text |-> "none", retentionDays |-> 0, points |-> <<>>]

\* the variant that takes whatever the file last held
ReadWhateverIsThere(file) == file

\* readFile, JSON.parse, catch { return null }: NoHistory stands for null
readHistoryFile(file) == IF file.exists /\ file.text = "json" THEN file ELSE NoHistory

\* previousHistory?.points ?? []
PreviousPoints(file) == readHistoryFile(file).points

tracesFor(traces, source) == SelectSeq(traces, LAMBDA tr : tr.source = source)

\* url.includes(fragment): the fragments used are path prefixes
pickMetricQueries(traces, source, fragment) ==
    SelectSeq(tracesFor(traces, source), LAMBDA tr : tr.url.path.kind = fragment)

formatTraceQueries(traces) == traces

LineageMetric(queries, penalty, fallbackUsed) ==
    [queries |-> queries, penalty |-> penalty, fallbackUsed |-> fallbackUsed]

buildLineage(traces, statuses, lines, arrivals, weatherRaw, finalAir, penalties, score) ==
    LET transitFallbackUsed == statuses.tfl # "ok" \/ lines = <<>>
        stopsWithArrivals == SelectSeq(arrivals, LAMBDA stop : stop.nextArrivalsMinutes # <<>>)
        waitFallbackUsed == statuses.tfl # "ok" \/ stopsWithArrivals = <<>>
        weatherFallbackUsed == statuses.openMeteo # "ok" \/ weatherRaw.time = <<>>
        airFallbackUsed == statuses.ergAirQuality # "ok" \/ finalAir.maxIndex = NoNum
    IN  [transit |-> LineageMetric(formatTraceQueries(pickMetricQueries(traces, "tfl", "/line/mode/")),
                                   penalties.transit, transitFallbackUsed),
         wait |-> LineageMetric(formatTraceQueries(pickMetricQueries(traces, "tfl", "/StopPoint/")),
                                penalties.wait, waitFallbackUsed),
         weather |-> LineageMetric(formatTraceQueries(tracesFor(traces, "openMeteo")),
                                   penalties.weather, weatherFallbackUsed),
         air |-> LineageMetric(formatTraceQueries(tracesFor(traces, "ergAirQuality")),
                               penalties.air, airFallbackUsed),
         liveabilityScore |-> LineageMetric(<<>>, score,
                                  transitFallbackUsed \/ waitFallbackUsed
                                  \/ weatherFallbackUsed \/ airFallbackUsed)]

\* the weather summary of a disabled source (collect.ts, weatherSummary)
DisabledWeather ==
    WeatherSummary(EmptyWeather, NoNum, NoNum, NoNum, Fallbacks.weatherPenalty,
                   Fallbacks.weatherPenalty, Fallbacks.weatherPenalty, Fallbacks.weatherPenalty)

DisabledAir == [maxIndex |-> NoNum, band |-> NoText,
                penalty |-> Fallbacks.airPenalty, stationName |-> NoText]

WeatherSummaryFor(statuses, weatherRaw) ==
    IF statuses.openMeteo = "disabled" THEN DisabledWeather ELSE computeWeatherPenalty(weatherRaw)

\* the snapshot: collect.ts from the penalties to the latest payload
Latest(c, t, statuses, warns, traces, d) ==
    LET transitPenalty == IF statuses.tfl = "disabled" THEN Fallbacks.transitPenalty
                          ELSE computeTransitPenalty(d.tflStatusLines)
        waitPenalty == IF statuses.tfl = "disabled" THEN Fallbacks.waitPenalty
                       ELSE computeWaitPenalty(d.tflArrivals)
        weatherSummary == WeatherSummaryFor(statuses, d.weatherRaw)
        finalAir == IF statuses.ergAirQuality = "disabled" THEN DisabledAir
                    ELSE computeAirPenalty(d.airSummary)
        penalties == [transit |-> transitPenalty, wait |-> waitPenalty,
                      weather |-> weatherSummary.penalty, air |-> finalAir.penalty]
        score == computeLiveabilityScore(penalties, c.weights)
    IN  [written |-> TRUE,
         collectedAtUtc |-> ToISOString(t),
         liveabilityScore |-> score.score,
         penalties |-> [transit |-> penalties.transit, wait |-> penalties.wait,
                        weather |-> penalties.weather, air |-> penalties.air,
                        weightedTotal |-> score.weightedTotal],
         details |-> [lineStatuses |-> d.tflStatusLines, arrivals |-> d.tflArrivals,
                      weather |-> weatherSummary, airQuality |-> finalAir],
         sourceStatuses |-> statuses,
         lineage |-> buildLineage(traces, statuses, d.tflStatusLines, d.tflArrivals,
                                  d.weatherRaw, finalAir, penalties, score.score),
         warnings |-> warns]

NoFile == [written |-> FALSE]

HistoryPoint(latest) ==
    [tsUtc |-> latest.collectedAtUtc, score |-> latest.liveabilityScore,
     penalties |-> [transit |-> latest.penalties.transit, wait |-> latest.penalties.wait,
                    weather |-> latest.penalties.weather, air |-> latest.penalties.air]]

\* the variant that appends the point of the run twice
HistoryAppendingTwice(c, t, previous, latest) ==
    [exists |-> TRUE, text |-> "json", retentionDays |-> c.historyRetentionDays,
     points |-> trimHistory(PreviousPoints(previous) \o <<HistoryPoint(latest), HistoryPoint(latest)>>,
                            c.historyRetentionDays, t)]

History(c, t, previous, latest) ==
    [exists |-> TRUE, text |-> "json", retentionDays |-> c.historyRetentionDays,
     points |-> trimHistory(Append(PreviousPoints(previous), HistoryPoint(latest)),
                            c.historyRetentionDays, t)]

Meta(latest, statuses) ==
    [written |-> TRUE, latestCollectedAtUtc |-> latest.collectedAtUtc, sourceStatuses |-> statuses]

(***************************************************************************)
(* collectOnce as a state machine                                          *)
(***************************************************************************)
Statuses0(c) == [s \in Sources |-> IF c.enabled[s] THEN "ok" ELSE "disabled"]

Data0 == [tflStatusLines |-> <<>>, tflArrivals |-> <<>>, weatherRaw |-> EmptyWeather,
          airSummary |-> summarizeErgAirQuality(NoPayload)]

NoWeatherOutcome == Failed(0 - 1, EmptyWeather)
NoAirOutcome == Failed(0 - 1, NoPayload)

\* req.line: none, inflight, fallback (the per-mode requests are in flight),
\*           resolved, rejected, dead (whatever it does is no longer looked at)
\* req.modes[m], req.stops[s]: none, inflight, settled, abandoned
\* req.modeOk[m]: the per-mode request returned from its try block
Req0(c) ==
    [line |-> "none", lineError |-> NoError, lineResult |-> <<>>,
     modes |-> [m \in 1..c.nModes |-> "none"], modeResult |-> [m \in 1..c.nModes |-> <<>>],
     modeOk |-> [m \in 1..c.nModes |-> FALSE],
     stops |-> [s \in 1..c.nStops |-> "none"], stopResult |-> [s \in 1..c.nStops |-> <<>>],
     openMeteo |-> "none", ergAirQuality |-> "none",
     got |-> [openMeteo |-> NoWeatherOutcome, ergAirQuality |-> NoAirOutcome]]

\* the first times of a sequence of runs, and the steps between two runs
Deltas == {0 - MsPerDay \div 2, 5 * 60 * 1000, MsPerDay \div 2, (3 * MsPerDay) \div 2}
NextNows == IF runs = 0 THEN {0} ELSE { now + d : d \in Deltas }

\* the variant that marks every enabled source
MarkAllErrors(statuses, source) ==
    [s \in Sources |-> IF statuses[s] = "ok" /\ s # "fhrs" THEN "error" ELSE statuses[s]]

\* catch (error) { sourceStatuses.x = 'error'; ... }
MarkError(statuses, source) == [statuses EXCEPT ![source] = "error"]

\* the variant in which a source failure ends the run
StopAfterFailure(next) == "aborted"

\* where collectOnce goes on after a catch block
AfterFailure(next) == next

\* the variant that starts only the line-status request
IssueNoStops(c) == [s \in 1..c.nStops |-> "none"]

\* config.sources.tfl.stopPoints.map(async (stop) => fetchTflArrivals(...))
IssueStops(c) == [s \in 1..c.nStops |-> "inflight"]

\* const config = await loadValidatedConfig(...) and the declarations after it
StartRun(limit) ==
    /\ pc \in {"idle", "done"}
    /\ runs < limit
    /\ runs' = runs + 1
    /\ IF ~loadValidatedConfig(cfg)
       THEN /\ pc' = "aborted"
            /\ UNCHANGED <<cfg, now, backdated, sourceStatuses, warnings, requestTraces, req,
                           data, latestFile, historyFile, metaFile, input, output>>
       ELSE /\ pc' = "tfl"
            /\ \E t \in NextNows : now' = t /\ backdated' = (backdated \/ t < now)
            /\ sourceStatuses' = Statuses0(cfg)
            /\ warnings' = <<>>
            /\ requestTraces' = <<>>
            /\ req' = Req0(cfg)
            /\ data' = Data0
            /\ UNCHANGED <<cfg, latestFile, historyFile, metaFile, input, output>>

\* if (config.sources.tfl.enabled) { await Promise.all([fetchTflLineStatuses, ...fetchTflArrivals]) }
\* every call records its trace and starts its request before the first await
TflStart ==
    /\ pc = "tfl"
    /\ IF ~cfg.enabled.tfl
       THEN /\ pc' = "openMeteo"
            /\ UNCHANGED <<requestTraces, req>>
       ELSE /\ pc' = "tflWait"
            /\ requestTraces' = requestTraces
                   \o <<trace(LineStatusUrl(cfg), "tfl", "Combined line status request by mode")>>
                   \o [s \in 1..cfg.nStops |-> trace(ArrivalsUrl(cfg, s), "tfl", "Arrivals request")]
            /\ req' = [req EXCEPT !.line = "inflight", !.stops = IssueStops(cfg)]
    /\ UNCHANGED <<cfg, now, runs, backdated, sourceStatuses, warnings, data,
                   latestFile, historyFile, metaFile, input, output>>

BeforeLineage == pc \in {"openMeteo", "openMeteoWait", "ergAirQuality", "ergAirQualityWait", "compute"}

\* The continuation of collectOnce after something happened to a transit
\* request: r is the requests' new state, traces the trace list, err the
\* rejection (NoError when the request succeeded).
TflContinue(r, traces, err) ==
    /\ requestTraces' = traces
    /\ IF pc # "tflWait"
       THEN \* collectOnce has left the try block: nobody awaits these requests
            /\ req' = r
            /\ UNCHANGED <<pc, sourceStatuses, warnings, data>>
       ELSE IF err # NoError
       THEN \* Promise.all rejects with the first rejection
            /\ sourceStatuses' = MarkError(sourceStatuses, "tfl")
            /\ warnings' = Append(warnings, [source |-> "tfl", error |-> err])
            /\ pc' = AfterFailure("openMeteo")
            /\ req' = [Req0(cfg) EXCEPT
                          !.line = IF r.line = "inflight" THEN "inflight" ELSE "dead",
                          !.modes = r.modes, !.modeOk = r.modeOk,
                          !.stops = [s \in 1..cfg.nStops |-> "abandoned"]]
            /\ UNCHANGED data
       ELSE IF r.line = "resolved" /\ \A s \in 1..cfg.nStops : r.stops[s] = "settled"
       THEN /\ data' = [data EXCEPT
                          !.tflStatusLines = normalizeTflLineStatuses(r.lineResult),
                          !.tflArrivals = [s \in 1..cfg.nStops |->
                                              normalizeTflArrivals(r.stopResult[s], s)]]
            /\ pc' = "openMeteo"
            /\ req' = r
            /\ UNCHANGED <<sourceStatuses, warnings>>
       ELSE /\ req' = r
            /\ UNCHANGED <<pc, sourceStatuses, warnings, data>>
    /\ UNCHANGED <<cfg, now, runs, backdated, latestFile, historyFile, metaFile, input, output>>

\* fetchTflLineStatuses: the combined request settles
SettleLine(o) ==
    /\ req.line = "inflight"
    /\ pc = "tflWait" \/ BeforeLineage
    /\ IF o.ok
       THEN TflContinue([req EXCEPT !.line = IF pc = "tflWait" THEN "resolved" ELSE "dead",
                                    !.lineResult = IF pc = "tflWait" THEN o.payload ELSE <<>>],
                        requestTraces, NoError)
       ELSE IF IncludesHttp400(Err(o.status, LineStatusUrl(cfg))) /\ cfg.nModes > 1
       THEN TflContinue(IF pc = "tflWait"
                        THEN [req EXCEPT !.line = "fallback",
                                         !.lineError = Err(o.status, LineStatusUrl(cfg)),
                                         !.modes = [m \in 1..cfg.nModes |-> "inflight"]]
                        ELSE [req EXCEPT !.line = "dead"],
                        requestTraces \o [m \in 1..cfg.nModes |->
                            trace(ModeStatusUrl(cfg, m), "tfl", "Fallback line status request")],
                        NoError)
       ELSE TflContinue([req EXCEPT !.line = IF pc = "tflWait" THEN "rejected" ELSE "dead"],
                        requestTraces, Err(o.status, LineStatusUrl(cfg)))

\* fetchTflLineStatuses: a per-mode request of the fallback settles
SettleMode(m, o) ==
    /\ req.line = "fallback"
    /\ pc = "tflWait"
    /\ m \in 1..cfg.nModes
    /\ req.modes[m] = "inflight"
    /\ LET r1 == [req EXCEPT !.modes[m] = "settled", !.modeOk[m] = o.ok,
                             !.modeResult[m] = IF o.ok THEN o.payload ELSE <<>>]
           merged == Flat(r1.modeResult)
       IN  IF \E k \in 1..cfg.nModes : r1.modes[k] = "inflight"
           THEN TflContinue(r1, requestTraces, NoError)
           ELSE IF merged = <<>>
           THEN TflContinue([r1 EXCEPT !.line = "rejected"], requestTraces, req.lineError)
           ELSE TflContinue([r1 EXCEPT !.line = "resolved", !.lineResult = merged],
                            requestTraces, NoError)

\* fetchTflArrivals: the request of a stop settles
SettleStop(s, o) ==
    /\ pc = "tflWait"
    /\ s \in 1..cfg.nStops
    /\ req.stops[s] = "inflight"
    /\ IF o.ok
       THEN TflContinue([req EXCEPT !.stops[s] = "settled", !.stopResult[s] = o.payload],
                        requestTraces, NoError)
       ELSE TflContinue([req EXCEPT !.stops[s] = "settled"], requestTraces,
                        Err(o.status, ArrivalsUrl(cfg, s)))

\* the variant that asks for the forecast whether or not the source is enabled
WeatherStartUnconditional ==
    /\ pc = "openMeteo"
    /\ pc' = "openMeteoWait"
    /\ requestTraces' = Append(requestTraces,
           trace(ForecastUrl, "openMeteo", "Forecast request with configured hourly variables"))
    /\ req' = [req EXCEPT !.openMeteo = "inflight"]
    /\ UNCHANGED <<cfg, now, runs, backdated, sourceStatuses, warnings, data,
                   latestFile, historyFile, metaFile, input, output>>

\* if (config.sources.openMeteo.enabled) { ... await fetchOpenMeteoForecast(config, recordTrace)
WeatherStart ==
    /\ pc = "openMeteo"
    /\ IF ~cfg.enabled.openMeteo
       THEN /\ pc' = "ergAirQuality"
            /\ UNCHANGED <<requestTraces, req>>
       ELSE /\ pc' = "openMeteoWait"
            /\ requestTraces' = Append(requestTraces,
                   trace(ForecastUrl, "openMeteo", "Forecast request with configured hourly variables"))
            /\ req' = [req EXCEPT !.openMeteo = "inflight"]
    /\ UNCHANGED <<cfg, now, runs, backdated, sourceStatuses, warnings, data,
                   latestFile, historyFile, metaFile, input, output>>

\* ... weatherRaw = normalizeOpenMeteoHourly(...) } catch (error) { ... }
SettleWeather(o) ==
    /\ pc = "openMeteoWait"
    /\ req.openMeteo = "inflight"
    /\ req' = [req EXCEPT !.openMeteo = "settled", !.got.openMeteo = o]
    /\ IF o.ok
       THEN /\ data' = [data EXCEPT !.weatherRaw = normalizeOpenMeteoHourly(o.payload, forecastHours)]
            /\ pc' = "ergAirQuality"
            /\ UNCHANGED <<sourceStatuses, warnings>>
       ELSE /\ sourceStatuses' = MarkError(sourceStatuses, "openMeteo")
            /\ warnings' = Append(warnings, [source |-> "openMeteo", error |-> Err(o.status, ForecastUrl)])
            /\ pc' = AfterFailure("ergAirQuality")
            /\ UNCHANGED data
    /\ UNCHANGED <<cfg, now, runs, backdated, requestTraces,
                   latestFile, historyFile, metaFile, input, output>>

\* if (config.sources.ergAirQuality.enabled) { ... await fetchErgMonitoringIndex(config, recordTrace)
AirStart ==
    /\ pc = "ergAirQuality"
    /\ IF ~cfg.enabled.ergAirQuality
       THEN /\ pc' = "compute"
            /\ UNCHANGED <<requestTraces, req>>
       ELSE /\ pc' = "ergAirQualityWait"
            /\ requestTraces' = Append(requestTraces,
                   trace(MonitoringIndexUrl, "ergAirQuality", "ERG monitoring index request"))
            /\ req' = [req EXCEPT !.ergAirQuality = "inflight"]
    /\ UNCHANGED <<cfg, now, runs, backdated, sourceStatuses, warnings, data,
                   latestFile, historyFile, metaFile, input, output>>

\* ... airSummary = summarizeErgAirQuality(ergResponse, config) } catch (error) { ... }
SettleAir(o) ==
    /\ pc = "ergAirQualityWait"
    /\ req.ergAirQuality = "inflight"
    /\ req' = [req EXCEPT !.ergAirQuality = "settled", !.got.ergAirQuality = o]
    /\ IF o.ok
       THEN /\ data' = [data EXCEPT !.airSummary = summarizeErgAirQuality(o.payload)]
            /\ pc' = "compute"
            /\ UNCHANGED <<sourceStatuses, warnings>>
       ELSE /\ sourceStatuses' = MarkError(sourceStatuses, "ergAirQuality")
            /\ warnings' = Append(warnings, [source |-> "ergAirQuality",
                                             error |-> Err(o.status, MonitoringIndexUrl)])
            /\ pc' = AfterFailure("compute")
            /\ UNCHANGED data
    /\ UNCHANGED <<cfg, now, runs, backdated, requestTraces,
                   latestFile, historyFile, metaFile, input, output>>

\* from `const transitPenalty` to the three writeJson calls and the return.
\* A transit request nobody awaits any more cannot change what was written.
Persist ==
    /\ pc = "compute"
    /\ pc' = "done"
    /\ \E latest \in {Latest(cfg, now, sourceStatuses, warnings, requestTraces, data)} :
           /\ latestFile' = latest
           /\ historyFile' = History(cfg, now, historyFile, latest)
           /\ metaFile' = Meta(latest, sourceStatuses)
    /\ req' = [req EXCEPT !.line = IF @ = "inflight" THEN "dead" ELSE @]
    /\ UNCHANGED <<cfg, now, runs, backdated, sourceStatuses, warnings, requestTraces,
                   data, input, output>>

(***************************************************************************)
(* Specifications                                                          *)
(***************************************************************************)
Idle(c) ==
    /\ cfg = c
    /\ pc = "idle"
    /\ now = 0
    /\ runs = 0
    /\ backdated = FALSE
    /\ sourceStatuses = Statuses0(c)
    /\ warnings = <<>>
    /\ requestTraces = <<>>
    /\ req = Req0(c)
    /\ data = Data0
    /\ latestFile = NoFile
    /\ historyFile = NoHistory
    /\ metaFile = NoFile

NoFunction == [fn |-> "none"]

\* one run of the collector, for each configuration
Init ==
    /\ \E c \in TflConfigs \cup QuietConfigs \cup RejectedConfigs \cup SteepConfigs : Idle(c)
    /\ input = NoFunction
    /\ output = NoFunction

Next ==
    \/ StartRun(1)
    \/ TflStart
    \/ \E o \in LineOutcomes : SettleLine(o)
    \/ \E m \in 1..MaxModes, o \in ModeOutcomes : SettleMode(m, o)
    \/ \E s \in 1..MaxStops, o \in StopOutcomes : SettleStop(s, o)
    \/ WeatherStart
    \/ \E o \in WeatherOutcomes : SettleWeather(o)
    \/ AirStart
    \/ \E o \in AirOutcomes : SettleAir(o)
    \/ Persist

Spec == Init /\ [][Next]_vars

\* every request settles and every continuation runs
FairSpec == Spec /\ WF_vars(Next)

\* a sequence of runs sharing history.json, with only the weather source on
InitRuns ==
    /\ \E c \in WeatherOnlyConfigs : Idle(c)
    /\ input = NoFunction
    /\ output = NoFunction

NextRuns ==
    \/ StartRun(MaxRuns)
    \/ TflStart
    \/ WeatherStart
    \/ \E o \in WeatherOutcomes : SettleWeather(o)
    \/ AirStart
    \/ Persist

SpecRuns == InitRuns /\ [][NextRuns]_vars

\* the lengths of a history.json found by the first run
PriorLengths(days) == {0, 1} \cup { days * PointsPerDay + k : k \in 0..1 }

\* a sequence of runs that finds a history.json written by earlier runs, its
\* points a minute or five apart, oldest or newest first
InitResume ==
    /\ \E c \in WeatherOnlyConfigs : \E n \in PriorLengths(c.historyRetentionDays),
          step \in {60 * 1000, 5 * 60 * 1000}, backwards \in BOOLEAN :
          LET prior == [i \in 1..n |->
                          [tsUtc |-> ToISOString(0 - (n - i) * step), score |-> 5000,
                           penalties |-> [transit |-> 1500, wait |-> 1500,
                                          weather |-> 1000, air |-> 1000]]]
          IN  /\ cfg = c
              /\ historyFile = [exists |-> TRUE, text |-> "json",
                                retentionDays |-> c.historyRetentionDays,
                                points |-> IF backwards THEN [i \in 1..n |-> prior[n + 1 - i]]
                                           ELSE prior]
    /\ pc = "idle" /\ now = 0 /\ runs = 0 /\ backdated = FALSE
    /\ sourceStatuses = Statuses0(cfg) /\ warnings = <<>> /\ requestTraces = <<>>
    /\ req = Req0(cfg) /\ data = Data0
    /\ latestFile = NoFile /\ metaFile = NoFile
    /\ input = NoFunction /\ output = NoFunction

SpecResume == InitResume /\ [][NextRuns]_vars

(***************************************************************************)
(* Specifications of single functions: Init draws the argument, the       *)
(* action applies the function.                                            *)
(***************************************************************************)
QuietConfig == Config(TRUE, Enabled(FALSE, FALSE, FALSE, TRUE), Weights, 1, DefaultInterval, TRUE, 1, 0)

ParamNames == {"app_key", "api_key", "key", "token", "foo"}
ParamValues == {"abc123", "secret", "bar"}
Params == { Param(n, v) : n \in ParamNames, v \in ParamValues }
Queries == UNION { [1..n -> Params] : n \in 0..MaxQueryLen }

InitSanitize ==
    /\ Idle(QuietConfig)
    /\ \E q \in Queries : input = [fn |-> "sanitize", url |-> Url(Path("/line/mode/", <<1>>), q)]
    /\ output = NoFunction

\* sources.ts trace(url, source, recordTrace, note) with collectOnce's recordTrace
TraceUrl ==
    /\ input.fn = "sanitize"
    /\ output = NoFunction
    /\ output' = [fn |-> "sanitize", url |-> sanitizeUrlForLineage(input.url)]
    /\ requestTraces' = Append(requestTraces, trace(input.url, "tfl", "probe"))
    /\ UNCHANGED <<runVars, input>>

SpecSanitize == InitSanitize /\ [][TraceUrl]_vars

PenaltySamples == {0 - 500, 1255, 12000}
WeightSamples == {0, 5, 10}
MetricRecords(S) == [transit : S, wait : S, weather : S, air : S]

\* the call of the scoring test: penalties 10, 20, 56, 10 under the weights of
\* the valid configuration
TestedPenalties == [transit |-> 1000, wait |-> 2000, weather |-> 5600, air |-> 1000]

InitScore ==
    /\ Idle(QuietConfig)
    /\ \/ \E p \in MetricRecords(PenaltySamples), w \in MetricRecords(WeightSamples) :
             input = [fn |-> "score", penalties |-> p, weights |-> w]
       \/ input = [fn |-> "score", penalties |-> TestedPenalties, weights |-> Weights]
    /\ output = NoFunction

ScoreCall ==
    /\ input.fn = "score"
    /\ output = NoFunction
    /\ output' = [fn |-> "score", result |-> computeLiveabilityScore(input.penalties, input.weights)]
    /\ UNCHANGED <<runVars, requestTraces, input>>

SpecScore == InitScore /\ [][ScoreCall]_vars

\* per-item penalties: band values and one that makes a mean end in a half
ItemPenalties == {0, 1000, 1255, 3500}
PenaltyLists == UNION { [1..n -> ItemPenalties] : n \in 0..MaxItems }

LineWith(p) == [name |-> "Circle", status |-> "Severe Delays", severityPoints |-> p]
StopWith(p) == [stopPointId |-> 1, nextArrivalsMinutes |-> <<600>>, medianMinutes |-> 600,
                penalty |-> p]

InitAggregate ==
    /\ Idle(QuietConfig)
    /\ \E ps \in PenaltyLists, metric \in {"transit", "wait"} :
          input = [fn |-> "aggregate", metric |-> metric, values |-> ps]
    /\ output = NoFunction

AggregateCall ==
    /\ input.fn = "aggregate"
    /\ output = NoFunction
    /\ output' = [fn |-> "aggregate",
                  result |-> IF input.metric = "transit"
                             THEN computeTransitPenalty(MapSeq(LineWith, input.values))
                             ELSE computeWaitPenalty(MapSeq(StopWith, input.values))]
    /\ UNCHANGED <<runVars, requestTraces, input>>

SpecAggregate == InitAggregate /\ [][AggregateCall]_vars

\* band tables in ascending order of limit, of up to MaxBands rows
BandLimits == {20, 50, 80, 100}
BandTables ==
    { t \in UNION { [1..n -> [limit : BandLimits, penalty : {0, 1000, 3000}]] : n \in 0..MaxBands } :
        \A i \in 1..(Len(t) - 1) : t[i].limit < t[i + 1].limit }

\* values below, at and above the limits, and NaN
BandValues == {0 - 5, 20, 21, 50, 80, 81, 100, 101, NoNum}

InitBand ==
    /\ Idle(QuietConfig)
    /\ \E v \in BandValues, t \in BandTables : input = [fn |-> "band", value |-> v, bands |-> t]
    /\ output = NoFunction

BandCall ==
    /\ input.fn = "band"
    /\ output = NoFunction
    /\ output' = [fn |-> "band", result |-> lookupBandPenalty(input.value, input.bands)]
    /\ UNCHANGED <<runVars, requestTraces, input>>

SpecBand == InitBand /\ [][BandCall]_vars

FiveMinutes == 5 * 60 * 1000

SamplePoint(t) == [tsUtc |-> ToISOString(t), score |-> 5000,
                   penalties |-> [transit |-> 1500, wait |-> 1500, weather |-> 1000, air |-> 1000]]

\* n points, step apart, the last one at time last
Series(n, step, last) == [i \in 1..n |-> SamplePoint(last - (n - i) * step)]

Reverse(s) == [i \in 1..Len(s) |-> s[Len(s) + 1 - i]]

SeriesLengths(days) ==
    {0, 1, days * PointsPerDay - 1} \cup { days * PointsPerDay + k : k \in 0..MaxOverCap }

InitTrim ==
    /\ Idle(QuietConfig)
    /\ \E days \in 1..MaxDays, step \in {0, 60 * 1000, FiveMinutes, 2 * FiveMinutes},
          gap \in {0, FiveMinutes, MsPerDay}, backwards \in BOOLEAN :
          \E n \in SeriesLengths(days) :
             LET t == (MaxDays + 1) * MsPerDay
                 prior == Series(n, step, t - gap)
             IN  input = [fn |-> "trim", retentionDays |-> days, now |-> t,
                          points |-> Append(IF backwards THEN Reverse(prior) ELSE prior,
                                            SamplePoint(t))]
    /\ output = NoFunction

TrimCall ==
    /\ input.fn = "trim"
    /\ output = NoFunction
    /\ output' = [fn |-> "trim", points |-> trimHistory(input.points, input.retentionDays, input.now)]
    /\ UNCHANGED <<runVars, requestTraces, input>>

SpecTrim == InitTrim /\ [][TrimCall]_vars

(***************************************************************************)
(* Properties                                                              *)
(***************************************************************************)
Done == pc = "done"

ArtifactsWritten == latestFile.written /\ historyFile.exists /\ metaFile.written

\* the text of an error message holds the URL of the failed request
SecretInError(err) == err.status > 0 /\ OccursInUrl(AppKeyValue, err.url)
SecretInWarnings(warns) == \E i \in 1..Len(warns) : SecretInError(warns[i].error)
SecretInQueries(queries) == \E i \in 1..Len(queries) : OccursInUrl(AppKeyValue, queries[i].url)
SecretInLineage(lineage) ==
    \E m \in {"transit", "wait", "weather", "air", "liveabilityScore"} :
        SecretInQueries(lineage[m].queries)

\* C1: after a run, whatever the sources did, none of latest.json,
\* history.json and meta.json holds the value of the TfL app_key: not in the
\* warnings, not in a lineage query URL.  (history.json and meta.json hold
\* no text taken from a request at all.)
C1_NoSecretPersisted ==
    latestFile.written =>
        /\ ~SecretInWarnings(latestFile.warnings)
        /\ ~SecretInLineage(latestFile.lineage)

SensitiveRedacted(before, after) ==
    \A k \in ParamNames :
        IsSensitive(k) /\ SearchParamsHas(before, k) =>
            /\ SearchParamsHas(after, k)
            /\ \A i \in 1..Len(after) : after[i].name = k => after[i].value = "REDACTED"

OthersKept(before, after) ==
    SelectSeq(before, LAMBDA p : ~IsSensitive(p.name)) = SelectSeq(after, LAMBDA p : ~IsSensitive(p.name))

SecretValues(q) == { q[i].value : i \in { j \in 1..Len(q) : IsSensitive(q[j].name) } }

\* the text of the URL outside the values of the four sensitive parameters
OccursOutsideSecrets(t, url) ==
    \/ url.path.kind = t
    \/ \E i \in 1..Len(url.query) :
          url.query[i].name = t \/ (~IsSensitive(url.query[i].name) /\ url.query[i].value = t)

TracesSanitized ==
    \A i \in 1..Len(requestTraces) :
        \A j \in 1..Len(requestTraces[i].url.query) :
            IsSensitive(requestTraces[i].url.query[j].name) =>
                requestTraces[i].url.query[j].value = "REDACTED"

\* C2 as stated: in the result of sanitizeUrlForLineage every parameter named
\* app_key, api_key, key or token has the value REDACTED, every other
\* parameter keeps its name and value, the original secret values occur
\* nowhere in the result, and every recorded trace holds a sanitized URL.
C2_SecretValuesNeverOccur ==
    output.fn = "sanitize" =>
        /\ SensitiveRedacted(input.url.query, output.url.query)
        /\ OthersKept(input.url.query, output.url.query)
        /\ \A v \in SecretValues(input.url.query) : ~OccursInUrl(v, output.url)
        /\ TracesSanitized

\* C2 as amended: as above, but an original secret value may remain in the
\* result where the URL carries the same text outside the values of those four
\* parameters (the value of another parameter, say), or when it is the text
\* REDACTED itself.
C2_SanitizedByName ==
    output.fn = "sanitize" =>
        /\ SensitiveRedacted(input.url.query, output.url.query)
        /\ OthersKept(input.url.query, output.url.query)
        /\ output.url.path = input.url.path
        /\ \A v \in SecretValues(input.url.query) :
              OccursInUrl(v, output.url) => v = "REDACTED" \/ OccursOutsideSecrets(v, input.url)
        /\ TracesSanitized
        /\ requestTraces # <<>> /\ requestTraces[Len(requestTraces)].url = output.url

\* a URL with a secret, a repeated sensitive parameter or not, and another
\* parameter has been traced
C2_Witness ==
    /\ output.fn = "sanitize"
    /\ Len(requestTraces) = 1
    /\ \E i, j \in 1..Len(input.url.query) :
          /\ input.url.query[i] = Param("token", "abc123")
          /\ input.url.query[j] = Param("foo", "bar")

\* C3: the score computeLiveabilityScore returns is between 0 and 100 for
\* all penalties and all non-negative weights; the snapshot and the history
\* point of a run carry that score.
C3_ScoreInRange ==
    /\ output.fn = "score" => output.result.score >= 0 /\ output.result.score <= 10000
    /\ latestFile.written => latestFile.liveabilityScore >= 0 /\ latestFile.liveabilityScore <= 10000
    /\ \A i \in 1..Len(historyFile.points) :
          historyFile.points[i].score >= 0 /\ historyFile.points[i].score <= 10000

\* both clamps have acted: a weighted total above 100 and one below 0
C3_Witness ==
    /\ output.fn = "score"
    /\ \/ WeightedTotalMilli(input.penalties, input.weights) > 100000 /\ output.result.score = 0
       \/ WeightedTotalMilli(input.penalties, input.weights) < 0 /\ output.result.score = 10000

C5_FallbackOnErrorOrDisabled ==
    Done =>
        /\ sourceStatuses.tfl # "ok" =>
              /\ latestFile.penalties.transit = Fallbacks.transitPenalty
              /\ latestFile.penalties.wait = Fallbacks.waitPenalty
        /\ sourceStatuses.openMeteo # "ok" =>
              latestFile.penalties.weather = Fallbacks.weatherPenalty
        /\ sourceStatuses.ergAirQuality # "ok" =>
              latestFile.penalties.air = Fallbacks.airPenalty

ErrorSources == { s \in Sources : sourceStatuses[s] = "error" }

OneWarningPerError ==
    /\ Len(warnings) = Cardinality(ErrorSources)
    /\ \A s \in ErrorSources : \E i \in 1..Len(warnings) : warnings[i].source = s

\* what a source with one request must end as, given only its own response
StatusFrom(enabled, outcome) ==
    IF ~enabled THEN "disabled" ELSE IF outcome.ok THEN "ok" ELSE "error"

\* C6: a failed source is marked `error` with one warning, and the status,
\* the normalized data and the penalties of every other source are what that
\* source's own responses make them, as in the run where nothing else failed.
C6_FailureStaysLocal ==
    Done =>
        /\ OneWarningPerError
        /\ sourceStatuses.openMeteo = StatusFrom(cfg.enabled.openMeteo, req.got.openMeteo)
        /\ data.weatherRaw = normalizeOpenMeteoHourly(req.got.openMeteo.payload, forecastHours)
        /\ latestFile.details.weather = WeatherSummaryFor(sourceStatuses, data.weatherRaw)
        /\ latestFile.penalties.weather = latestFile.details.weather.penalty
        /\ sourceStatuses.ergAirQuality = StatusFrom(cfg.enabled.ergAirQuality, req.got.ergAirQuality)
        /\ data.airSummary = summarizeErgAirQuality(req.got.ergAirQuality.payload)
        /\ latestFile.penalties.air = latestFile.details.airQuality.penalty
        /\ latestFile.details.airQuality.maxIndex = data.airSummary.maxIndex
        /\ sourceStatuses.tfl = "ok" =>
              /\ req.line = "resolved"
              /\ data.tflStatusLines = normalizeTflLineStatuses(req.lineResult)
              /\ data.tflArrivals = [s \in 1..cfg.nStops |-> normalizeTflArrivals(req.stopResult[s], s)]
              /\ latestFile.penalties.transit = computeTransitPenalty(data.tflStatusLines)
              /\ latestFile.penalties.wait = computeWaitPenalty(data.tflArrivals)
        /\ sourceStatuses.tfl # "ok" => data.tflStatusLines = <<>> /\ data.tflArrivals = <<>>
        /\ sourceStatuses.tfl = "disabled" <=> ~cfg.enabled.tfl
        /\ sourceStatuses.fhrs = StatusFrom(cfg.enabled.fhrs, Ok(<<>>))

\* the weather source failed while transit and air quality delivered data
C6_Witness ==
    /\ Done
    /\ sourceStatuses.openMeteo = "error" /\ Len(warnings) = 1
    /\ sourceStatuses.tfl = "ok" /\ data.tflStatusLines # <<>> /\ data.tflArrivals # <<>>
    /\ sourceStatuses.ergAirQuality = "ok" /\ data.airSummary.maxIndex # NoNum

NothingFetchedOrWritten ==
    /\ requestTraces = <<>>
    /\ req = Req0(cfg)
    /\ ~latestFile.written /\ ~historyFile.exists /\ ~metaFile.written

\* C7: a configuration that fails validation stops collectOnce before any
\* request, trace or artifact, and nothing else stops a run.
C7_OnlyConfigStopsRun ==
    /\ ~validateConfigObject(cfg) => pc \in {"idle", "aborted"} /\ NothingFetchedOrWritten
    /\ pc = "aborted" => ~validateConfigObject(cfg)

C7_Witness == pc = "aborted" /\ runs = 1 /\ NothingFetchedOrWritten

Issued(s) == IF s = "tfl" THEN req.line # "none" ELSE req[s] # "none"
FetchedSources == { s \in {"tfl", "openMeteo", "ergAirQuality"} : cfg.enabled[s] }
TransitTogether == req.line # "none" => \A s \in 1..cfg.nStops : req.stops[s] # "none"

\* C8 as stated: the requests of the enabled sources are in flight together,
\* none waits for the response or the failure of another source, and within
\* transit the line-status and the per-stop requests are in flight together.
C8_AllFetchesConcurrent ==
    /\ (\E s \in FetchedSources : Issued(s)) => \A s \in FetchedSources : Issued(s)
    /\ TransitTogether

\* C8 as amended: the sources are fetched in turn, transit, then weather,
\* then air quality: the weather request is issued only when collectOnce no
\* longer awaits transit (all its responses are in, or its first failure was
\* caught) and the air-quality request only when the weather request has
\* settled; within transit the line-status request and every per-stop
\* request are in flight together.
C8_SourcesInTurn ==
    /\ pc = "tflWait" => req.openMeteo = "none" /\ req.ergAirQuality = "none"
    /\ pc = "openMeteoWait" => req.ergAirQuality = "none"
    /\ req.openMeteo = "inflight" => pc = "openMeteoWait"
    /\ req.ergAirQuality = "inflight" => pc = "ergAirQualityWait"
    /\ pc = "tflWait" => req.line # "none"
    /\ TransitTogether

\* the transit requests are all in flight and the weather request is not out
C8_Witness ==
    /\ pc = "tflWait" /\ req.line = "inflight"
    /\ cfg.nStops = MaxStops /\ \A s \in 1..cfg.nStops : req.stops[s] = "inflight"
    /\ cfg.enabled.openMeteo /\ req.openMeteo = "none"

\* C9: what trimHistory keeps is no older than now minus retentionDays days
\* and no longer than 288 points per retention day.
C9_TrimBounds ==
    output.fn = "trim" =>
        /\ \A i \in 1..Len(output.points) :
              GetTime(output.points[i].tsUtc) >= input.now - input.retentionDays * MsPerDay
        /\ Len(output.points) <= PointsPerDay * input.retentionDays

\* the age filter has dropped a point and the cap has dropped another
C9_Witness ==
    /\ output.fn = "trim"
    /\ Len(output.points) = PointsPerDay * input.retentionDays
    /\ \E i \in 1..Len(input.points) :
          GetTime(input.points[i].tsUtc) < input.now - input.retentionDays * MsPerDay
    /\ Len(TrimWithoutCap(input.points, input.retentionDays, input.now)) > Len(output.points)

Sorted(points) ==
    \A i \in 1..Len(points) - 1 : GetTime(points[i].tsUtc) <= GetTime(points[i + 1].tsUtc)

\* C10: starting without history, as long as no run is given a `now` before
\* that of the run before it, history.json is sorted by time after every run.
C10_HistorySorted == ~backdated => Sorted(historyFile.points)

\* a third run has dropped an old point and kept two
C10_Witness ==
    /\ Done /\ runs = 3 /\ ~backdated
    /\ Len(historyFile.points) = 2
    /\ GetTime(historyFile.points[1].tsUtc) < GetTime(historyFile.points[2].tsUtc)

\* C11: a run adds one point to the series and no more: the series it
\* writes is at most one point longer than the one it read, its last point
\* is the point of this run, with the time, the score and the four penalties
\* of the snapshot written with it, and no other step changes the series.
C11_OnePointPerRun ==
    [][IF pc = "compute" /\ pc' = "done"
       THEN /\ Len(historyFile'.points) <= Len(PreviousPoints(historyFile)) + 1
            /\ Len(historyFile'.points) >= 1
            /\ LET last == historyFile'.points[Len(historyFile'.points)]
               IN  /\ last.tsUtc = latestFile'.collectedAtUtc
                   /\ GetTime(last.tsUtc) = now
                   /\ last.score = latestFile'.liveabilityScore
                   /\ \A m \in {"transit", "wait", "weather", "air"} :
                         last.penalties[m] = latestFile'.penalties[m]
       ELSE historyFile' = historyFile]_vars

\* the first run found a series of full length, a minute apart: the length
\* cap dropped its oldest point and kept the point of the run
C11_Witness ==
    /\ Done /\ runs = 1
    /\ Len(historyFile.points) = cfg.historyRetentionDays * PointsPerDay
    /\ GetTime(historyFile.points[1].tsUtc) = 0 - (cfg.historyRetentionDays * PointsPerDay - 2) * 60 * 1000
    /\ GetTime(historyFile.points[Len(historyFile.points)].tsUtc) = now

\* C12: computeTransitPenalty and computeWaitPenalty return the configured
\* fallback of the metric for an empty list, and otherwise the mean of the
\* items' penalties rounded to two decimals (the nearest hundredth, a half
\* going up).
C12_MeanOrFallback ==
    output.fn = "aggregate" =>
        LET n == Len(input.values)
            sum == SumSeq(input.values)
            r == output.result
        IN  IF n = 0
            THEN r = (IF input.metric = "transit" THEN Fallbacks.transitPenalty
                      ELSE Fallbacks.waitPenalty)
            ELSE 2 * n * r <= 2 * sum + n /\ 2 * sum + n < 2 * n * r + 2 * n

\* an empty list has given the fallback, which is not 0
C12_Witness ==
    /\ output.fn = "aggregate" /\ input.values = <<>> /\ input.metric = "wait"
    /\ output.result = FallbackWait /\ output.result # 0

\* C13: for every value and every ordered band table lookupBandPenalty
\* returns the penalty of the first row whose limit is at or above the
\* value, the penalty of the last row when there is no such row, and 0 for
\* an empty table.
C13_FirstRowAtOrAbove ==
    output.fn = "band" =>
        LET v == input.value
            t == input.bands
            rows == { i \in 1..Len(t) : v # NoNum /\ v <= t[i].limit }
        IN  /\ rows # {} =>
                \E i \in rows : (\A j \in rows : i <= j) /\ output.result = t[i].penalty
            /\ rows = {} /\ t # <<>> => output.result = t[Len(t)].penalty
            /\ t = <<>> => output.result = 0

\* a value exactly at the limit of the second row got that row's penalty,
\* which is neither the first row's nor the last row's
C13_Witness ==
    /\ output.fn = "band" /\ Len(input.bands) = 3
    /\ input.value = input.bands[2].limit
    /\ output.result = input.bands[2].penalty
    /\ input.bands[1].penalty # output.result /\ input.bands[3].penalty # output.result

\* x, in thousandths, rounded to two decimals is r, in hundredths
RoundsTo(x, r) == 20 * r <= 2 * x + 10 /\ 2 * x + 10 < 20 * r + 20

\* C14: computeLiveabilityScore returns the weighted sum of the four
\* penalties and 100 minus that sum kept within 0..100, each rounded to two
\* decimals; penalties 10, 20, 56, 10 under weights 1, 1, 0.8, 1 give the
\* total 84.8 and the score 15.2.
C14_WeightedTotalAndScore ==
    output.fn = "score" =>
        LET p == input.penalties
            w == input.weights
            total == w.transit * p.transit + w.wait * p.wait
                     + w.weather * p.weather + w.air * p.air
            rest == 100000 - total
            clamped == IF rest < 0 THEN 0 ELSE IF rest > 100000 THEN 100000 ELSE rest
        IN  /\ RoundsTo(total, output.result.weightedTotal)
            /\ RoundsTo(clamped, output.result.score)
            /\ input.penalties = TestedPenalties /\ input.weights = Weights =>
                  output.result.weightedTotal = 8480 /\ output.result.score = 1520

\* a total ending in half a hundredth was scored: total and score are both
\* rounded upwards and add up to 100.01
C14_Witness ==
    /\ output.fn = "score"
    /\ WeightedTotalMilli(input.penalties, input.weights) % 10 = 5
    /\ output.result.score > 0 /\ output.result.score < 10000
    /\ output.result.score + output.result.weightedTotal = 10001

\* the largest penalty a band table defines
BandMax(bands) == MaxSeq([i \in 1..Len(bands) |-> bands[i].penalty])
SeverityMax ==
    MaxSeq(<<transitSeverityPoints.goodService, transitSeverityPoints.minorDelays,
             transitSeverityPoints.severeDelays, transitSeverityPoints.partSuspended,
             transitSeverityPoints.suspended, transitSeverityPoints.unknown>>)
TempMax == Max(tempComfort.shoulderPenalty, tempComfort.extremePenalty)

Within(x, top) == 0 <= x /\ x <= top

\* C15 as stated: in every snapshot each component penalty is between 0 and
\* the largest penalty of its metric's band table, on the fallback paths too.
C15_WithinBandTable ==
    latestFile.written =>
        /\ Within(latestFile.penalties.transit, SeverityMax)
        /\ Within(latestFile.penalties.wait, BandMax(waitPenaltyBands))
        /\ Within(latestFile.details.weather.rainPenalty, BandMax(rainBands))
        /\ Within(latestFile.details.weather.tempPenalty, TempMax)
        /\ Within(latestFile.details.weather.windPenalty, BandMax(windBands))
        /\ Within(latestFile.penalties.weather, BandMax(rainBands) + TempMax + BandMax(windBands))
        /\ Within(latestFile.penalties.air, BandMax(airPenalty))

\* C15 as amended: each component penalty is between 0 and the larger of
\* the largest penalty of its band table and the metric's configured
\* fallback; the weather penalty is at most the sum of the bounds of its
\* three parts.
C15_WithinBandOrFallback ==
    latestFile.written =>
        /\ Within(latestFile.penalties.transit, Max(SeverityMax, Fallbacks.transitPenalty))
        /\ Within(latestFile.penalties.wait, Max(BandMax(waitPenaltyBands), Fallbacks.waitPenalty))
        /\ Within(latestFile.details.weather.rainPenalty,
                  Max(BandMax(rainBands), Fallbacks.weatherPenalty))
        /\ Within(latestFile.details.weather.tempPenalty, Max(TempMax, Fallbacks.weatherPenalty))
        /\ Within(latestFile.details.weather.windPenalty,
                  Max(BandMax(windBands), Fallbacks.weatherPenalty))
        /\ Within(latestFile.penalties.weather,
                  Max(BandMax(rainBands), Fallbacks.weatherPenalty)
                  + Max(TempMax, Fallbacks.weatherPenalty)
                  + Max(BandMax(windBands), Fallbacks.weatherPenalty))
        /\ Within(latestFile.penalties.air, Max(BandMax(airPenalty), Fallbacks.airPenalty))

\* a snapshot whose transit and air penalties are fallbacks above their band
\* tables, next to a weather penalty that came from the bands
C15_Witness ==
    /\ Done
    /\ latestFile.penalties.transit = Fallbacks.transitPenalty
    /\ latestFile.penalties.transit > SeverityMax
    /\ latestFile.penalties.air > BandMax(airPenalty)
    /\ sourceStatuses.openMeteo = "ok" /\ latestFile.details.weather.maxRainProbability # NoNum

(***************************************************************************)
(* validateConfigObject on its own                                         *)
(***************************************************************************)
\* weights on both sides of zero, retention and interval on both sides of their limits
WeightChoices == {0 - 10, 0, 250}
RetentionChoices == {0, 1, 30, 31}
IntervalChoices == {4, 5, DefaultInterval}

CandidateConfigs ==
    { Config(k, Enabled(t, o, FALSE, f), [transit |-> wt, wait |-> 0, weather |-> ww, air |-> wa],
             d, i, TRUE, 1, 0) :
        k \in BOOLEAN, t \in BOOLEAN, o \in BOOLEAN, f \in BOOLEAN,
        wt \in WeightChoices, ww \in WeightChoices, wa \in {0, 250},
        d \in RetentionChoices, i \in IntervalChoices }

InitValidate ==
    /\ Idle(QuietConfig)
    /\ \E c \in CandidateConfigs : input = [fn |-> "validateConfigObject", config |-> c]
    /\ output = NoFunction

\* the promise settles: it resolves with the object it was given, or rejects
ValidateCall ==
    /\ input.fn = "validateConfigObject"
    /\ output = NoFunction
    /\ output' = IF validateConfigObject(input.config)
                 THEN [fn |-> "validateConfigObject", settled |-> "resolved", value |-> input.config]
                 ELSE [fn |-> "validateConfigObject", settled |-> "rejected"]
    /\ UNCHANGED <<runVars, requestTraces, input>>

SpecValidate == InitValidate /\ [][ValidateCall]_vars

\* C16: validateConfigObject rejects a configuration that passes the schema exactly
\* when no source is enabled, or a weight is negative, or no weight is positive, or
\* historyRetentionDays is outside 1..30, or collectionIntervalMinutes is below 5;
\* otherwise it resolves with the configuration it was given.
C16_RejectsExactlySemanticFailures ==
    (output.fn = "validateConfigObject" /\ input.config.schemaOk) =>
        LET c == input.config
            noSource == ~(c.enabled.tfl \/ c.enabled.openMeteo \/ c.enabled.ergAirQuality \/ c.enabled.fhrs)
            negative == c.weights.transit < 0 \/ c.weights.wait < 0
                        \/ c.weights.weather < 0 \/ c.weights.air < 0
            nonePositive == c.weights.transit <= 0 /\ c.weights.wait <= 0
                            /\ c.weights.weather <= 0 /\ c.weights.air <= 0
            retentionOut == c.historyRetentionDays \notin 1..30
            intervalLow == c.collectionIntervalMinutes < 5
        IN  IF noSource \/ negative \/ nonePositive \/ retentionOut \/ intervalLow
            THEN output.settled = "rejected"
            ELSE output.settled = "resolved" /\ output.value = c

\* a configuration that passes the schema and is rejected only for its retention of 31 days
C16_Witness ==
    /\ output.fn = "validateConfigObject"
    /\ output.settled = "rejected"
    /\ input.config.schemaOk
    /\ input.config.enabled.openMeteo
    /\ input.config.weights.transit = 250
    /\ input.config.weights.weather = 0
    /\ input.config.weights.air = 0
    /\ input.config.historyRetentionDays = 31
    /\ input.config.collectionIntervalMinutes = 5

\* the requests of a source that have been issued in this run
IssuedFor(s) ==
    CASE s = "tfl" -> req.line # "none"
                      \/ (\E m \in DOMAIN req.modes : req.modes[m] # "none")
                      \/ (\E k \in DOMAIN req.stops : req.stops[k] # "none")
      [] s = "openMeteo" -> req.openMeteo # "none"
      [] s = "ergAirQuality" -> req.ergAirQuality # "none"
      [] OTHER -> FALSE

\* C17: for a source disabled in the configuration no request is issued and no
\* trace with that source is recorded during the run, and its status is disabled
\* from the start of the run to the written snapshot.
C17_DisabledSourceUntouched ==
    \A s \in Sources :
        ~cfg.enabled[s] =>
            /\ sourceStatuses[s] = "disabled"
            /\ ~IssuedFor(s)
            /\ \A i \in 1..Len(requestTraces) : requestTraces[i].source # s
            /\ latestFile # NoFile => latestFile.sourceStatuses[s] = "disabled"
            /\ metaFile # NoFile => metaFile.sourceStatuses[s] = "disabled"

\* a finished run with the transit source disabled, beside a source that was
\* asked and answered and one that was asked and failed
C17_Witness ==
    /\ pc = "done"
    /\ ~cfg.enabled.tfl
    /\ latestFile # NoFile
    /\ latestFile.sourceStatuses = [tfl |-> "disabled", openMeteo |-> "ok",
                                    ergAirQuality |-> "error", fhrs |-> "disabled"]
    /\ Len(requestTraces) = 2

\* C18: in the written snapshot the lineage record of each of the four component
\* metrics has fallbackUsed true whenever the metric's source is disabled or in
\* error, or gave no usable data for the metric: no watched line, no stop with an
\* arrival, an empty window of weather values, no valid air-quality index.
C18_FallbackFlagged ==
    latestFile # NoFile =>
        LET st == latestFile.sourceStatuses
            d == latestFile.details
            lin == latestFile.lineage
            window == d.weather.next6h
        IN  /\ (st.tfl # "ok" \/ d.lineStatuses = <<>>) => lin.transit.fallbackUsed
            /\ (st.tfl # "ok" \/ \A i \in 1..Len(d.arrivals) : d.arrivals[i].nextArrivalsMinutes = <<>>)
                   => lin.wait.fallbackUsed
            /\ (st.openMeteo # "ok" \/ window.precipitation_probability = <<>>
                \/ window.temperature_2m = <<>> \/ window.wind_speed_10m = <<>>)
                   => lin.weather.fallbackUsed
            /\ (st.ergAirQuality # "ok" \/ d.airQuality.maxIndex = NoNum) => lin.air.fallbackUsed

\* the combined request of a multi-mode configuration fails while collectOnce awaits it
CombinedRequestFails ==
    /\ pc = "tflWait"
    /\ cfg.nModes > 1
    /\ req.line = "inflight"
    /\ req'.line \notin {"inflight", "resolved"}

\* one request per configured mode is issued, each with a trace of its own
PerModeFallbackStarts ==
    /\ req'.line = "fallback"
    /\ \A m \in 1..cfg.nModes : req'.modes[m] = "inflight"
    /\ requestTraces' = requestTraces \o
           [m \in 1..cfg.nModes |-> trace(ModeStatusUrl(cfg, m), "tfl", "Fallback line status request")]

\* the error of the combined request reaches collectOnce and nothing more is asked
OriginalErrorSurfaces ==
    /\ req'.line = "dead"
    /\ \A m \in 1..cfg.nModes : req'.modes[m] = "none"
    /\ requestTraces' = requestTraces
    /\ sourceStatuses'.tfl = "error"
    /\ Len(warnings') = Len(warnings) + 1
    /\ warnings'[Len(warnings')].source = "tfl"
    /\ warnings'[Len(warnings')].error.url = (IF warnings'[Len(warnings')].error.status = 0
                                             THEN NoUrl ELSE LineStatusUrl(cfg))

\* C19: when the combined multi-mode status request gets a client-error response
\* (any 4xx status) fetchTflLineStatuses issues one status request per configured
\* mode, each with its own trace; on any other failure the original error is
\* surfaced without further requests.
C19_FallbackOnClientError ==
    [][CombinedRequestFails =>
          \/ PerModeFallbackStarts /\ req'.lineError.status \in 400..499
          \/ OriginalErrorSurfaces /\ warnings'[Len(warnings')].error.status \notin 400..499]_vars

\* C19 as amended: the per-mode requests are issued when the combined multi-mode
\* request gets an HTTP 400 response; on every other failure, another 4xx status
\* included, the original error is surfaced without further requests.
C19_FallbackOnHttp400 ==
    [][CombinedRequestFails =>
          \/ PerModeFallbackStarts /\ req'.lineError.status = 400
          \/ OriginalErrorSurfaces /\ warnings'[Len(warnings')].error.status # 400]_vars

\* the combined request of two modes got a 400 and the two per-mode requests are
\* in flight, their traces recorded after the combined one and the arrivals
C19_Witness ==
    /\ pc = "tflWait"
    /\ cfg.nModes = 2
    /\ req.line = "fallback"
    /\ req.lineError.status = 400
    /\ req.modes = <<"inflight", "inflight">>
    /\ Len(requestTraces) = 1 + cfg.nStops + 2
    /\ requestTraces[Len(requestTraces)].note = "Fallback line status request"

\* the last per-mode request of the fallback settles
FallbackCompletes ==
    /\ pc = "tflWait"
    /\ req.line = "fallback"
    /\ \E m \in 1..cfg.nModes : req.modes[m] = "inflight"
    /\ \A m \in 1..cfg.nModes : req'.modes[m] = "settled"

\* C20: once the per-mode fallback has run, fetchTflLineStatuses returns the merge
\* of the responses of the per-mode requests that succeeded whenever at least one
\* of them succeeded, and surfaces the error of the combined request only when
\* none of them succeeded.
C20_MergeOfSuccesses ==
    [][FallbackCompletes =>
          IF \E m \in 1..cfg.nModes : req'.modeOk[m]
          THEN /\ req'.line = "resolved"
               /\ req'.lineResult = Flat(req'.modeResult)
               /\ sourceStatuses'.tfl = sourceStatuses.tfl
          ELSE /\ req'.line = "dead"
               /\ sourceStatuses'.tfl = "error"
               /\ warnings' = Append(warnings, [source |-> "tfl", error |-> req.lineError])]_vars

(***************************************************************************)
(* Two runs with the same responses                                        *)
(***************************************************************************)
LineAnswers == { Ok(<<LineItem("Victoria", "Good Service"), LineItem("Circle", "Severe Delays")>>),
                 Failed(400, <<>>), Failed(500, <<>>) }
ModeAnswers == { Ok(<<LineItem("DLR", "Minor Delays")>>), Failed(500, <<>>) }
StopAnswers == { Ok(<<120, 360, 600, 1800>>), Failed(500, <<>>) }

\* two modes, one stop or more, the weather source on: every transit request has
\* its answer fixed before the first run
InitOrder ==
    /\ \E n \in 1..MaxStops :
          /\ Idle(Config(TRUE, Enabled(TRUE, TRUE, FALSE, FALSE), Weights, 1, DefaultInterval,
                         TRUE, 2, n))
          /\ \E l \in LineAnswers, ms \in [1..2 -> ModeAnswers], ss \in [1..n -> StopAnswers] :
                input = [fn |-> "responses", line |-> l, modes |-> ms, stops |-> ss]
    /\ output = NoFunction

\* the caller keeps what the first collectOnce returned
KeepFirst ==
    /\ pc = "done"
    /\ runs = 1
    /\ output = NoFunction
    /\ output' = [fn |-> "collectOnce", latest |-> latestFile]
    /\ UNCHANGED <<runVars, requestTraces, input>>

NextOrder ==
    \/ StartRun(2)
    \/ KeepFirst
    \/ TflStart
    \/ SettleLine(input.line)
    \/ \E m \in DOMAIN input.modes : SettleMode(m, input.modes[m])
    \/ \E s \in DOMAIN input.stops : SettleStop(s, input.stops[s])
    \/ WeatherStart
    \/ SettleWeather(Ok(WeatherScenario))
    \/ AirStart
    \/ Persist

SpecOrder == InitOrder /\ [][NextOrder]_vars

QuerySet(metric) == { metric.queries[i] : i \in 1..Len(metric.queries) }

SameNumbers(a, b) ==
    /\ a.liveabilityScore = b.liveabilityScore
    /\ a.penalties = b.penalties
    /\ a.sourceStatuses = b.sourceStatuses

SameWarnings(a, b) == a.warnings = b.warnings

SameQueries(a, b) ==
    \A k \in {"transit", "wait", "weather", "air"} : QuerySet(a.lineage[k]) = QuerySet(b.lineage[k])

BothRunsDone == pc = "done" /\ runs = 2 /\ output.fn = "collectOnce"

\* C21: two runs whose transit requests get the same responses, completing in any
\* two orders, emit the same score, penalties, source statuses, warnings and, for
\* each metric, the same set of lineage queries.
C21_OrderIndependent ==
    BothRunsDone =>
        /\ SameNumbers(latestFile, output.latest)
        /\ SameWarnings(latestFile, output.latest)
        /\ SameQueries(latestFile, output.latest)

\* C22: in every written weather summary, whatever the status of the weather
\* source, the total weather penalty is rainPenalty + tempPenalty + windPenalty
\* of that summary.
C22_WeatherTotalIsSum ==
    latestFile # NoFile =>
        LET w == latestFile.details.weather
        IN  w.penalty = w.rainPenalty + w.tempPenalty + w.windPenalty

(***************************************************************************)
(* normalizeOpenMeteoHourly and computeWeatherPenalty on their own         *)
(***************************************************************************)
\* seven hours whose seventh value is the largest, with one entry of each array
\* replaced by a text that is not a number (position 0: none replaced)
HourlyTimes == <<"t1", "t2", "t3", "t4", "t5", "t6", "t7">>
FirstTemps == {0 - 3, 12, 18, 30}
TempsFrom(first) == <<first, 18, 19, 20, 21, 22, 23>>
RainHours == <<10, 40, 55, 30, 20, 30, 95>>
WindHours == <<15, 19, 22, 28, 18, 18, 40>>
Unusable(arr, k) == [i \in 1..Len(arr) |-> IF i = k THEN TextRaw ELSE arr[i]]

HourlyPayloads ==
    { [time |-> HourlyTimes, temperature_2m |-> Unusable(TempsFrom(t), kt),
       precipitation_probability |-> Unusable(RainHours, kr),
       wind_speed_10m |-> Unusable(WindHours, kw)] :
        t \in FirstTemps, kt \in {0, 1, 2}, kr \in 0..7, kw \in {0, 4, 7} }
    \cup { EmptyWeather, [EmptyWeather EXCEPT !.temperature_2m = <<TextRaw>>] }

InitWeather ==
    /\ Idle(QuietConfig)
    /\ \E h \in HourlyPayloads : input = [fn |-> "weather", hourly |-> h]
    /\ output = NoFunction

WeatherCall ==
    /\ input.fn = "weather"
    /\ output = NoFunction
    /\ output' = [fn |-> "weather",
                  summary |-> computeWeatherPenalty(
                                  normalizeOpenMeteoHourly(input.hourly, forecastHours))]
    /\ UNCHANGED <<runVars, requestTraces, input>>

SpecWeather == InitWeather /\ [][WeatherCall]_vars

\* the three-tier comfort rule
ComfortRule(temp) ==
    IF temp >= tempComfort.idealMin /\ temp <= tempComfort.idealMax THEN 0
    ELSE IF temp >= tempComfort.shoulderMin /\ temp <= tempComfort.shoulderMax
         THEN tempComfort.shoulderPenalty
    ELSE tempComfort.extremePenalty

ValuesOf(arr) == { arr[i] : i \in 1..Len(arr) }

\* the values of an array of the payload that are numbers, in the payload's order
UsableOf(arr) == SelectSeq([i \in 1..Len(arr) |-> ToNumber(arr[i])], LAMBDA v : v # NoNum)

Countdowns == {TextRaw, NullRaw, 0 - 30, 58, 120, 360, 600, 1800}
ArrivalLists == UNION { [1..n -> Countdowns] : n \in 0..(MaxItems + 1) }

InitArrivals ==
    /\ Idle(QuietConfig)
    /\ \E raw \in ArrivalLists : input = [fn |-> "arrivals", raw |-> raw]
    /\ output = NoFunction

ArrivalsCall ==
    /\ input.fn = "arrivals"
    /\ output = NoFunction
    /\ output' = [fn |-> "arrivals", stop |-> normalizeTflArrivals(input.raw, 1)]
    /\ UNCHANGED <<runVars, requestTraces, input>>

SpecArrivals == InitArrivals /\ [][ArrivalsCall]_vars

\* the positions of the payload whose countdown is a non-negative finite number
UsableAt(raw) == { i \in 1..Len(raw) : ToNumber(raw[i]) # NoNum /\ ToNumber(raw[i]) >= 0 }

\* m hundredths of a minute is seconds, to the nearest tenth of a minute
NearestTenth(m, seconds) ==
    /\ m % 10 = 0
    /\ 6 * m - 10 * seconds <= 30
    /\ 10 * seconds - 6 * m <= 30

IndexFields == {TextRaw, 45, 110, 30, 60, 100}
Leaves == { Node(NoText, <<30>>, <<>>), Node(NoText, <<100>>, <<>>), Node("Kew", <<60>>, <<>>) }
Sites ==
    { Node(site, aqi, below) :
        site \in {NoText, "Camden", "City"},
        aqi \in {<<>>} \cup { <<v>> : v \in IndexFields },
        below \in {<<>>} \cup { <<leaf>> : leaf \in Leaves } }
ErgPayloads ==
    { Node(site, aqi, sites) :
        site \in {NoText, "London"},
        aqi \in {<<>>, <<60>>, <<110>>},
        sites \in UNION { [1..n -> Sites] : n \in 0..2 } }

InitAir ==
    /\ Idle(QuietConfig)
    /\ \E p \in ErgPayloads : input = [fn |-> "air", payload |-> p]
    /\ output = NoFunction

AirCall ==
    /\ input.fn = "air"
    /\ output = NoFunction
    /\ output' = [fn |-> "air", summary |-> summarizeErgAirQuality(input.payload)]
    /\ UNCHANGED <<runVars, requestTraces, input>>

SpecAir == InitAir /\ [][AirCall]_vars

\* the index fields of a node that hold an integer from 1 to 10, as integers
IndicesOf(node) ==
    { ToNumber(node.aqi[i]) \div 10 : i \in { k \in 1..Len(node.aqi) :
          ToNumber(node.aqi[k]) \in { 10 * x : x \in 1..10 } } }

SiteOr(node, outer) == IF node.siteName # NoText THEN node.siteName ELSE outer

\* every valid index of a payload of three levels, with its nearest enclosing site
Occurrences(root) ==
    LET top == SiteOr(root, NoText)
    IN  { [value |-> v, station |-> top] : v \in IndicesOf(root) }
        \cup UNION { LET mid == SiteOr(root.children[i], top)
                     IN  { [value |-> v, station |-> mid] : v \in IndicesOf(root.children[i]) }
                         \cup UNION { { [value |-> v,
                                         station |-> SiteOr(root.children[i].children[j], mid)] :
                                          v \in IndicesOf(root.children[i].children[j]) } :
                                      j \in 1..Len(root.children[i].children) } :
                     i \in 1..Len(root.children) }

\* C25: summarizeErgAirQuality reports the maximum of all integer index values in
\* 1..10 found in the nested payload, the name of the nearest enclosing site of
\* an occurrence of that maximum, and the band and penalty of the first air-band
\* row whose ceiling is at or above it (the last row otherwise); with no valid
\* index, index, band and station are absent and the penalty is the air fallback.
C25_WorstIndexAcrossPayload ==
    output.fn = "air" =>
        LET found == Occurrences(input.payload)
            s == output.summary
        IN  IF found = {}
            THEN s = [maxIndex |-> NoNum, band |-> NoText,
                      penalty |-> Fallbacks.airPenalty, stationName |-> NoText]
            ELSE /\ \A o \in found : o.value <= s.maxIndex
                 /\ \E o \in found : o.value = s.maxIndex /\ o.station = s.stationName
                 /\ \/ \E i \in 1..Len(airPenalty) :
                          /\ s.maxIndex <= airPenalty[i].limit
                          /\ \A j \in 1..(i - 1) : s.maxIndex > airPenalty[j].limit
                          /\ s.band = airPenalty[i].band
                          /\ s.penalty = airPenalty[i].penalty
                    \/ /\ \A i \in 1..Len(airPenalty) : s.maxIndex > airPenalty[i].limit
                       /\ s.band = airPenalty[Len(airPenalty)].band
                       /\ s.penalty = airPenalty[Len(airPenalty)].penalty

\* the worst index, 10, sits in an object without a site name inside the second
\* site, Camden, after a site with index 6 and beside indices that are not valid
C25_Witness ==
    /\ output.fn = "air"
    /\ input.payload = Node("London", <<110>>,
                            <<Node("City", <<60>>, <<>>),
                              Node("Camden", <<45>>, <<Node(NoText, <<100>>, <<>>)>>)>>)
    /\ output.summary = [maxIndex |-> 10, band |-> "Very High", penalty |-> 3500,
                         stationName |-> "Camden"]

\* the fetch-and-normalize step of a source was attempted in this run and succeeded;
\* collectOnce has no such step for fhrs
FetchSucceeded(s) ==
    CASE s = "tfl" -> /\ req.line = "resolved"
                      /\ \A k \in DOMAIN req.stops : req.stops[k] = "settled"
                      /\ data.tflStatusLines = normalizeTflLineStatuses(req.lineResult)
      [] s = "openMeteo" -> req.openMeteo = "settled" /\ req.got.openMeteo.ok
      [] s = "ergAirQuality" -> req.ergAirQuality = "settled" /\ req.got.ergAirQuality.ok
      [] OTHER -> FALSE

\* C26: at the end of a run a source is reported ok only if its fetch-and-normalize
\* step was attempted and succeeded during the run, for each of tfl, openMeteo,
\* ergAirQuality and fhrs.
C26_OkOnlyAfterFetch ==
    Done => \A s \in Sources :
                latestFile.sourceStatuses[s] = "ok" => FetchSucceeded(s)

\* C27: when the lineage record of a component metric has fallbackUsed false, no
\* configured fallback went into the metric's penalty: a watched line was
\* returned, every watched stop's penalty came from its own median wait, each of
\* the rain, temperature and wind parts came from weather values, and the air
\* penalty came from a valid index.
C27_NoFallbackBehindClearFlag ==
    latestFile # NoFile =>
        LET d == latestFile.details
            lin == latestFile.lineage
        IN  /\ ~lin.transit.fallbackUsed => d.lineStatuses # <<>>
            /\ ~lin.wait.fallbackUsed =>
                  \A i \in 1..Len(d.arrivals) : d.arrivals[i].medianMinutes # NoNum
            /\ ~lin.weather.fallbackUsed =>
                  /\ d.weather.maxRainProbability # NoNum
                  /\ d.weather.representativeTemp # NoNum
                  /\ d.weather.maxWindSpeed # NoNum
            /\ ~lin.air.fallbackUsed => d.airQuality.maxIndex # NoNum

(***************************************************************************)
(* Runs whose history.json is lost or damaged between them                 *)
(***************************************************************************)
\* the file system: history.json is truncated, made unreadable or deleted
Damage(kind) ==
    /\ pc \in {"idle", "done", "tfl", "openMeteo"}
    /\ historyFile.exists
    /\ historyFile.text = "json"
    /\ historyFile' = IF kind = "deleted" THEN NoHistory ELSE [historyFile EXCEPT !.text = kind]
    /\ UNCHANGED <<cfg, pc, now, runs, backdated, sourceStatuses, warnings, requestTraces, req,
                   data, latestFile, metaFile, input, output>>

NextDamaged ==
    \/ NextRuns
    \/ \E kind \in {"garbage", "locked", "deleted"} : Damage(kind)

SpecDamaged == InitRuns /\ [][NextDamaged]_vars

\* C28: when the persisted history file is missing, unreadable or not parseable
\* the run does not fail: it writes a series that consists of exactly the point
\* of the current run, so the earlier points are gone.
C28_DamagedHistoryStartsAfresh ==
    [][(pc = "compute" /\ (~historyFile.exists \/ historyFile.text # "json")) =>
          /\ pc' = "done"
          /\ historyFile'.exists /\ historyFile'.text = "json"
          /\ Len(historyFile'.points) = 1
          /\ historyFile'.points[1].tsUtc = latestFile'.collectedAtUtc
          /\ GetTime(historyFile'.points[1].tsUtc) = now
          /\ historyFile'.points[1].score = latestFile'.liveabilityScore]_vars

\* the second run, five minutes after the first and within the retention
\* window, has written a series of one point: the first run's point is gone
C28_Witness ==
    /\ pc = "done"
    /\ runs = 2
    /\ now = 5 * 60 * 1000
    /\ Len(historyFile.points) = 1
    /\ GetTime(historyFile.points[1].tsUtc) = now

(***************************************************************************)
(* Runs that follow a series collected at a steady cadence                 *)
(***************************************************************************)
\* the series left by runs a step apart, the last of them a step before time 0:
\* as many points as the window of the last of those runs holds, or fewer
CadenceSteps == {5 * 60 * 1000, 10 * 60 * 1000}
CadenceLengths(days, step) ==
    LET full == (days * MsPerDay) \div step
    IN  {0, 1, full - 1, full}

InitCadence ==
    /\ \E c \in WeatherOnlyConfigs : \E step \in CadenceSteps :
          \E n \in CadenceLengths(c.historyRetentionDays, step) :
             /\ cfg = c
             /\ historyFile = [exists |-> TRUE, text |-> "json",
                               retentionDays |-> c.historyRetentionDays,
                               points |-> [i \in 1..n |->
                                   [tsUtc |-> ToISOString(0 - (n - i + 1) * step), score |-> 5000,
                                    penalties |-> [transit |-> 1500, wait |-> 1500,
                                                   weather |-> 1000, air |-> 1000]]]]
    /\ pc = "idle" /\ now = 0 /\ runs = 0 /\ backdated = FALSE
    /\ sourceStatuses = Statuses0(cfg) /\ warnings = <<>> /\ requestTraces = <<>>
    /\ req = Req0(cfg) /\ data = Data0
    /\ latestFile = NoFile /\ metaFile = NoFile
    /\ input = NoFunction /\ output = NoFunction

SpecCadence == InitCadence /\ [][NextRuns]_vars

\* a run, none of the runs so far set before the one before it, writes its series
RunWritesSeries == pc = "compute" /\ pc' = "done" /\ ~backdated

StillThere(point) == \E j \in 1..Len(historyFile'.points) : historyFile'.points[j] = point

\* C29: with runs at least five minutes apart the cap of 288 points per retention
\* day removes no point that the age filter kept: every point that is not older
\* than now minus the retention days is in the series after the run.
C29_CapKeepsWindow ==
    [][RunWritesSeries =>
          \A i \in 1..Len(historyFile.points) :
              GetTime(historyFile.points[i].tsUtc) >= now - cfg.historyRetentionDays * MsPerDay
                  => StillThere(historyFile.points[i])]_vars

\* C29 as amended: with runs at least five minutes apart every point that is
\* newer than now minus the retention days is in the series after the run; the
\* point that is exactly that old passes the age filter and can be removed by
\* the cap.
C29_CapKeepsNewerThanWindow ==
    [][RunWritesSeries =>
          \A i \in 1..Len(historyFile.points) :
              GetTime(historyFile.points[i].tsUtc) > now - cfg.historyRetentionDays * MsPerDay
                  => StillThere(historyFile.points[i])]_vars

\* after 288 points a day, five minutes apart, the first run has written a full
\* series: its oldest point is five minutes inside the window and the point at
\* the edge of the window is gone
C29_Witness ==
    /\ pc = "done"
    /\ runs = 1
    /\ Len(historyFile.points) = cfg.historyRetentionDays * PointsPerDay
    /\ GetTime(historyFile.points[1].tsUtc)
           = 5 * 60 * 1000 - cfg.historyRetentionDays * MsPerDay
    /\ GetTime(historyFile.points[Len(historyFile.points)].tsUtc) = 0
====
